---- MODULE Spec2Model ----
(***************************************************************************)
(* Pose Spatial Studio: the stream orchestrator (backend, described by     *)
(* spec.md sections 3-5 and 7), and the web client's session control and   *)
(* result handling (frontend/src).                                         *)
(*                                                                         *)
(* Specifications:                                                         *)
(*   Spec      the Stream Orchestrator: sessions, worker pool, frames      *)
(*   SpecApp   the web client (App, Controls, StreamInitService) talking   *)
(*             to the orchestrator's session control over the socket       *)
(*   SpecWS    the client's pose_result handler (useWebSocket)             *)
(*   SpecSend  the client's frame sender (StreamService)                   *)
(***************************************************************************)
EXTENDS Integers, Sequences, FiniteSets, TLC

(* ------------------------------ bounds --------------------------------- *)

\* configured maximum of live sessions (config default 10, scaled down)
MaxSessions == 2
\* size of the worker pool (default min(cpu_count, 16), scaled down)
NumWorkers == 2
\* number of frames ever submitted to the orchestrator
MaxFrames == 3
\* length bound of each socket direction
MaxChan == 2
\* number of requests of one kind the client has outstanding at once
MaxReqs == 2
\* clock ticks the result handler and the frame sender are observed for
MaxTime == 2
\* number of calls made on one StreamService
MaxCalls == 3
\* number of frames the avatar renderers draw
MaxPoseFrames == 3
\* number of times the mobile client starts streaming
MaxStarts == 2
\* number of camera frames the mobile client sends
MaxCameraFrames == 2

(* --------------------------- program constants ------------------------- *)

RESULT_TIMEOUT_MS == 3000

StreamIds == {"a", "b", "c"}
AVAILABLE_MODELS == {"mediapipe", "rtmpose"}
NoModel == "none"
NoId == "-"

VARIABLES
    \* Stream Orchestrator
    sessions,      \* id -> StreamSession record (state "Closed" = not live)
    workers,       \* worker -> the frame it is processing, or Idle
    nextFrame,     \* capture order number of the next submitted frame
    started,       \* frames whose processing has ever started
    superseded,    \* frames replaced in the pending slot before starting
    lastOp,        \* the last orchestrator operation and its outcome
    \* web client: App / Controls / StreamInitService
    streams,       \* App.streams: list of [streamId, modelType]
    switchingModels, \* App.switchingModels: ids with a switch in progress
    initReqs,      \* pending StreamInitService.initializeStream promises
    switchReqs,    \* pending StreamInitService.switchModel promises
    isCreating,    \* Controls.isCreating: the create form is disabled
    c2s, s2c,      \* socket: client to server, server to client (FIFO)
    \* web client: useWebSocket
    poseResults,   \* id -> timestamp_ms of the displayed result, 0 = none
    lastUpdateTime,\* id -> timestamp_ms, 0 = no entry
    shown,         \* id -> the last two timestamps set into poseResults
    delivered,     \* the last pose_result handed to the handler, and when
    now,           \* Date.now(), in ms
    \* web client: StreamService
    lastSentTimestamp,
    emitted,       \* timestamps of the process_frame events emitted
    calls,         \* the calls made on the StreamService so far
    \* web client: CameraCapture
    isProcessingFrameRef,  \* the flag "a frame is being encoded"
    encoding,              \* a toBlob / FileReader callback is outstanding
    waitingForResultRef,   \* a frame was sent and its result is awaited
    waitingTimeoutRef,     \* fire time of the safety timer held, 0 = null
    timers,                \* fire times of the safety timers that are set
    intervalRef,           \* the capture interval is running
    resultSeen,            \* a pose_result of the stream came since the last send
    received,              \* timestamps of the frames whose pose_result has arrived
    \* web client: AvatarRenderer
    scene,             \* gltf.scene: bone -> [quaternion, scale], shared
    sceneParent,       \* gltf.scene.parent: the instance whose group holds it, 0 = none
    tPoseRotations,    \* _tPoseRotations: bone -> Quaternion, NoQuat = no entry
    tPoseScales,       \* _tPoseScales: bone -> scale, 0 = no entry
    tPoseCaptured,     \* _tPoseCaptured
    rend,              \* renderer instance -> its refs
    fkLog,             \* the frames rendered so far, with the instance
    \* mobile client: SocketService, CameraService, PoseProvider
    mSocket,           \* SocketService._socket is set
    mConnectionState,  \* _connectionState of the service and of the provider
    mCurrentStreamId,  \* SocketService._currentStreamId
    mCamera,           \* CameraService: the frame subscription is active
    mStartPending,     \* startStreaming awaits startCamera
    mIsStreaming,      \* PoseProvider._isStreaming
    mStreamId,         \* PoseProvider._streamId
    mLandmarks,        \* length of PoseProvider._landmarks and _worldLandmarks
    mOut,              \* events emitted and not yet handled by the backend
    mIn,               \* events of the backend not yet received
    mSession,          \* backend: the stream has an active processor
    mLog               \* the events emitted and received by the client, in order

orchVars == <<sessions, workers, nextFrame, started, superseded, lastOp>>
appVars == <<streams, switchingModels, initReqs, switchReqs, isCreating, c2s, s2c>>
wsVars == <<poseResults, lastUpdateTime, shown, delivered>>
sendVars == <<lastSentTimestamp, emitted, calls>>
camVars == <<isProcessingFrameRef, encoding, waitingForResultRef, waitingTimeoutRef, timers,
             intervalRef, resultSeen, received>>
avVars == <<scene, sceneParent, tPoseRotations, tPoseScales, tPoseCaptured, rend, fkLog>>
mobVars == <<mSocket, mConnectionState, mCurrentStreamId, mCamera, mStartPending,
             mIsStreaming, mStreamId, mLandmarks, mOut, mIn, mSession, mLog>>
vars == <<orchVars, appVars, wsVars, sendVars, camVars, avVars, mobVars, now>>

Workers == 1..NumWorkers
Frames == 1..MaxFrames

(* ------------------------- Stream Orchestrator ------------------------- *)

ClosedSession ==
    [state |-> "Closed", det |-> NoModel, detUp |-> FALSE, warm |-> NoModel,
     inFlight |-> FALSE, pending |-> <<>>, smooth |-> 0]

Idle == [sid |-> NoId, frame |-> 0, orphan |-> FALSE]

Live == {s \in StreamIds : sessions[s].state # "Closed"}

\* mutation: the pool runs one detector call at a time
IdleWorkers_oneAtATime == IF \A w \in Workers : workers[w] = Idle THEN Workers ELSE {}

IdleWorkers == {w \in Workers : workers[w] = Idle}

\* the jobs of session s that belong to its current incarnation
JobsOf(s) == {w \in Workers : workers[w].sid = s /\ ~workers[w].orphan}

Op(op, id, result, prev) == [op |-> op, id |-> id, result |-> result, prev |-> prev]

frameVars == <<workers, nextFrame, started, superseded>>

Range(q) == {q[i] : i \in DOMAIN q}

\* mutation: the capacity check is off by one
AtCapacity_offByOne == Cardinality(Live) > MaxSessions

\* admission control of createSession
AtCapacity == Cardinality(Live) >= MaxSessions

IsLive(id) == sessions[id].state # "Closed"

\* createSession(id, detectorConfig): SessionLimitExceeded at capacity,
\* DuplicateSessionId for a live id (either one when both apply), otherwise
\* the session is created in state Created.
createSession(id, det) ==
    /\ \E r \in {"SessionLimitExceeded", "DuplicateSessionId", "accepted"} :
          /\ r = "SessionLimitExceeded" => AtCapacity
          /\ r = "DuplicateSessionId" => IsLive(id)
          /\ r = "accepted" => ~AtCapacity /\ ~IsLive(id)
          /\ lastOp' = Op("createSession", id, r, sessions[id].state)
          /\ sessions' = IF r = "accepted"
                THEN [sessions EXCEPT ![id] =
                        [ClosedSession EXCEPT !.state = "Created", !.det = det]]
                ELSE sessions
    /\ UNCHANGED frameVars

\* Created -> Loading, with a progress notification
startLoading(id) ==
    /\ sessions[id].state = "Created"
    /\ sessions' = [sessions EXCEPT ![id].state = "Loading"]
    /\ lastOp' = Op("progress", id, "loading", "Created")
    /\ UNCHANGED frameVars

\* Loading -> Active: the detector has finished warm-up
loadDone(id) ==
    /\ sessions[id].state = "Loading"
    /\ sessions' = [sessions EXCEPT ![id].state = "Active", ![id].detUp = TRUE]
    /\ lastOp' = Op("warmup", id, "ok", "Loading")
    /\ UNCHANGED frameVars

\* Loading -> Error: the plugin failed to warm up
loadFail(id) ==
    /\ sessions[id].state = "Loading"
    /\ sessions' = [sessions EXCEPT ![id].state = "Error"]
    /\ lastOp' = Op("warmup", id, "DetectorInitFailed", "Loading")
    /\ UNCHANGED frameVars

\* a worker starts processing frame f of session id
StartOn(w, id, f, sess) ==
    /\ workers' = [workers EXCEPT ![w] = [sid |-> id, frame |-> f, orphan |-> FALSE]]
    /\ sessions' = [sess EXCEPT ![id].inFlight = TRUE]
    /\ started' = started \cup {f}

\* mutation: a session in Error still accepts frames
AcceptsFrames_orError(s) == s.state \in {"Active", "Error"}

\* only an Active session accepts frames
AcceptsFrames(s) == s.state = "Active"

\* mutation: a frame starts although the session is in flight
MustWait_noSingleFlight(s) == s.pending # <<>> \/ IdleWorkers = {}

\* the frame cannot start now: the session is busy, an earlier frame still
\* waits, or no worker is free
MustWait(s) == s.inFlight \/ s.pending # <<>> \/ IdleWorkers = {}

\* mutation: the new frame is queued behind the waiting one
ReplacePending_fifo(q, f) == Append(q, f)

\* the pending slot has depth one: the new frame replaces its content
ReplacePending(q, f) == <<f>>

\* submitFrame(id, rawFrame, captureTimestamp)
submitFrame(id) ==
    /\ nextFrame <= MaxFrames
    /\ nextFrame' = nextFrame + 1
    /\ LET f == nextFrame
           s == sessions[id]
       IN  IF s.state = "Closed"
           THEN /\ lastOp' = Op("submitFrame", id, "UnknownSession", s.state)
                /\ UNCHANGED <<sessions, workers, started, superseded>>
           ELSE IF ~AcceptsFrames(s)
           THEN /\ lastOp' = Op("submitFrame", id, "dropped", s.state)
                /\ UNCHANGED <<sessions, workers, started, superseded>>
           ELSE IF MustWait(s)
           THEN /\ sessions' = [sessions EXCEPT
                                  ![id].pending = ReplacePending(s.pending, f)]
                /\ superseded' = superseded \cup Range(s.pending)
                /\ lastOp' = Op("submitFrame", id, "pending", s.state)
                /\ UNCHANGED <<workers, started>>
           ELSE /\ \E w \in IdleWorkers : StartOn(w, id, f, sessions)
                /\ lastOp' = Op("submitFrame", id, "started", s.state)
                /\ UNCHANGED superseded

\* a free worker takes the pending frame of a session that is not in flight
dispatch(id) ==
    /\ sessions[id].state = "Active"
    /\ ~sessions[id].inFlight
    /\ sessions[id].pending # <<>>
    /\ \E w \in IdleWorkers :
          StartOn(w, id, Head(sessions[id].pending),
                  [sessions EXCEPT ![id].pending = Tail(@)])
    /\ lastOp' = Op("dispatch", id, "started", "Active")
    /\ UNCHANGED <<nextFrame, superseded>>

\* the detector call of worker w returns a pose; the result of a frame whose
\* session was closed meanwhile is discarded
complete(w) ==
    /\ workers[w] # Idle
    /\ workers' = [workers EXCEPT ![w] = Idle]
    /\ LET j == workers[w]
       IN  IF j.orphan
           THEN /\ lastOp' = Op("processFrame", j.sid, "discarded", sessions[j.sid].state)
                /\ UNCHANGED sessions
           ELSE /\ sessions' = [sessions EXCEPT ![j.sid].inFlight = FALSE,
                                                ![j.sid].smooth = j.frame]
                /\ lastOp' = Op("processFrame", j.sid, "result", sessions[j.sid].state)
    /\ UNCHANGED <<nextFrame, started, superseded>>

\* what a detector crash on worker w does to the pool: the worker is free again
PoolAfterCrash(w) == [workers EXCEPT ![w] = Idle]

\* mutation: the crash takes every session that is in flight down
SessionsAfterCrash_all(id) ==
    [s \in StreamIds |->
        IF sessions[s].inFlight
        THEN [sessions[s] EXCEPT !.state = "Error", !.inFlight = FALSE, !.pending = <<>>]
        ELSE sessions[s]]

\* what a detector crash in a frame of session id does to the sessions
SessionsAfterCrash(id) ==
    [sessions EXCEPT ![id].state = "Error",
                     ![id].inFlight = FALSE,
                     ![id].pending = <<>>]

\* the detector call of worker w crashes: caught at the session boundary
crash(w) ==
    /\ workers[w] # Idle
    /\ workers' = PoolAfterCrash(w)
    /\ LET j == workers[w]
       IN  IF j.orphan
           THEN /\ lastOp' = Op("processFrame", j.sid, "discarded", sessions[j.sid].state)
                /\ UNCHANGED sessions
           ELSE /\ sessions' = SessionsAfterCrash(j.sid)
                /\ lastOp' = Op("processFrame", j.sid, "ProcessingFailed", sessions[j.sid].state)
    /\ UNCHANGED <<nextFrame, started, superseded>>

\* mutation: the old detector is torn down and replaced before the warm-up
WarmingUp_eager(s, det) == [s EXCEPT !.warm = det, !.det = det, !.detUp = FALSE]

\* the session while the new detector warms up: only the candidate is noted
WarmingUp(s, det) == [s EXCEPT !.warm = det]

\* switchDetector(id, newDetectorConfig): start warming the new detector up
switchDetector(id, det) ==
    /\ LET s == sessions[id]
       IN  IF s.state = "Closed"
           THEN /\ lastOp' = Op("switchDetector", id, "UnknownSession", s.state)
                /\ UNCHANGED sessions
           ELSE IF s.state # "Active" \/ s.warm # NoModel
           THEN /\ lastOp' = Op("switchDetector", id, "rejected", s.state)
                /\ UNCHANGED sessions
           ELSE /\ sessions' = [sessions EXCEPT ![id] = WarmingUp(s, det)]
                /\ lastOp' = Op("progress", id, "switching", s.state)
    /\ UNCHANGED frameVars

\* the new detector is warm: swap the handle, then tear the old one down
switchDone(id) ==
    /\ sessions[id].warm # NoModel
    /\ ~sessions[id].inFlight
    /\ sessions' = [sessions EXCEPT ![id].det = sessions[id].warm,
                                    ![id].detUp = TRUE,
                                    ![id].warm = NoModel]
    /\ lastOp' = Op("switchDetector", id, "ok", sessions[id].state)
    /\ UNCHANGED frameVars

\* the new detector failed to warm up: the previous one stays
switchFail(id) ==
    /\ sessions[id].warm # NoModel
    /\ sessions' = [sessions EXCEPT ![id].warm = NoModel]
    /\ lastOp' = Op("switchDetector", id, "DetectorInitFailed", sessions[id].state)
    /\ UNCHANGED frameVars

\* mutation: a session in Error is kept by closeSession
SessionsAfterClose_keepError(id) ==
    IF sessions[id].state = "Error" THEN sessions
    ELSE [sessions EXCEPT ![id] = ClosedSession]

\* the sessions after closeSession(id) of a live id
SessionsAfterClose(id) == [sessions EXCEPT ![id] = ClosedSession]

\* closeSession(id): tear down, discard SmoothingState, remove; the frame in
\* flight is left to complete and its result is discarded
closeSession(id) ==
    /\ IF sessions[id].state = "Closed"
       THEN /\ lastOp' = Op("closeSession", id, "noop", "Closed")
            /\ UNCHANGED <<sessions, workers>>
       ELSE /\ sessions' = SessionsAfterClose(id)
            /\ workers' = [w \in Workers |->
                             IF workers[w].sid = id
                             THEN [workers[w] EXCEPT !.orphan = TRUE]
                             ELSE workers[w]]
            /\ lastOp' = Op("closeSession", id, "closed", sessions[id].state)
    /\ UNCHANGED <<nextFrame, started, superseded>>

(* --------------------- quaternions (three.js) ------------------------- *)

\* A rotation of the octahedral group (the quarter turns about the
\* coordinate axes and their products) is a tuple <<x, y, z, w>> of coprime
\* integers in its direction. A Quaternion is kept in the factored form
\*     (cos h + sin h * e_u) * g
\* with g such a rotation, u one of the coordinate axes and h the half-angle
\* in hundredths of a degree, -2250 < h <= 2250, together with the class of
\* its norm. A quaternion that does not factor this way has dir "other".

QI == <<0, 0, 0, 1>>
QX == <<1, 0, 0, 0>>
QY == <<0, 1, 0, 0>>
QZ == <<0, 0, 1, 0>>

\* Hamilton product of tuples <<x, y, z, w>>, as Quaternion.multiplyQuaternions
QMul(a, b) ==
    << a[4] * b[1] + a[1] * b[4] + a[2] * b[3] - a[3] * b[2],
       a[4] * b[2] - a[1] * b[3] + a[2] * b[4] + a[3] * b[1],
       a[4] * b[3] + a[1] * b[2] - a[2] * b[1] + a[3] * b[4],
       a[4] * b[4] - a[1] * b[1] - a[2] * b[2] - a[3] * b[3] >>

Abs(n) == IF n < 0 THEN -n ELSE n

RECURSIVE Gcd(_, _)
Gcd(m, n) == IF n = 0 THEN m ELSE Gcd(n, m % n)

\* a rotation of the octahedral group is kept as the integer quaternion in
\* its direction with coprime components (<<1, 0, 0, 1>> is the quarter turn
\* about X, (1 + i) / sqrt 2): the tuple brought back to that form
Prim(a) ==
    LET d == Gcd(Gcd(Abs(a[1]), Abs(a[2])), Gcd(Abs(a[3]), Abs(a[4])))
    IN  IF d = 0 THEN a ELSE << a[1] \div d, a[2] \div d, a[3] \div d, a[4] \div d >>

\* Quaternion.invert of a unit: the conjugate
QInv(a) == << -a[1], -a[2], -a[3], a[4] >>

QNeg(a) == << -a[1], -a[2], -a[3], -a[4] >>

Axes == {"x", "y", "z"}

AxisIndex(u) == CASE u = "x" -> 1 [] u = "y" -> 2 [] OTHER -> 3

AxisUnit(u) == CASE u = "x" -> QX [] u = "y" -> QY [] OTHER -> QZ

\* the axis of a unit that is plus or minus a coordinate axis, and its sign
AxisOf(g) == CHOOSE u \in Axes : g = AxisUnit(u) \/ g = QNeg(AxisUnit(u))
SignOf(g) == IF g \in {QX, QY, QZ} THEN 1 ELSE -1
IsAxis(g) == \E u \in Axes : g = AxisUnit(u) \/ g = QNeg(AxisUnit(u))

Quat(norm, u, h, g) == [norm |-> norm, dir |-> "axis", u |-> u, h |-> h, g |-> g]

\* a quaternion outside the factored form
OtherQuat(norm) == [norm |-> norm, dir |-> "other", u |-> "x", h |-> 0, g |-> QI]

ZeroQuat == [norm |-> "zero", dir |-> "axis", u |-> "x", h |-> 0, g |-> QI]

\* the quarter turn about axis u, 1 + e_u, and its inverse, 1 - e_u
QuarterTurn(u) ==
    LET e == AxisUnit(u) IN << e[1], e[2], e[3], 1 >>
QuarterTurnInv(u) ==
    LET e == AxisUnit(u) IN << -e[1], -e[2], -e[3], 1 >>

\* the factored form with the half-angle brought into (-2250, 2250]: whole
\* quarter turns about u move into g
RECURSIVE Canon(_)
Canon(q) ==
    IF q.norm = "zero" THEN ZeroQuat
    ELSE IF q.dir = "other" THEN OtherQuat(q.norm)
    ELSE IF q.h > 2250
        THEN Canon([q EXCEPT !.h = q.h - 4500, !.g = Prim(QMul(QuarterTurn(q.u), q.g))])
    ELSE IF q.h <= -2250
        THEN Canon([q EXCEPT !.h = q.h + 4500, !.g = Prim(QMul(QuarterTurnInv(q.u), q.g))])
    ELSE IF q.h = 0 THEN [q EXCEPT !.u = "x"]
    ELSE q

\* the identity rotation, new THREE.Quaternion()
IdentityQuat == Quat("unit", "x", 0, QI)

\* a rotation of the octahedral group as a Quaternion
Unit(g) == Quat("unit", "x", 0, g)

NormMul(a, b) ==
    IF a = "zero" \/ b = "zero" THEN "zero"
    ELSE IF a = "unit" /\ b = "unit" THEN "unit"
    ELSE "off"

\* g * (cos h + sin h e_u) * g^-1 for a unit g: the axis part is carried to
\* plus or minus a coordinate axis
Carry(g, u, h) ==
    LET e == Prim(QMul(QMul(g, AxisUnit(u)), QInv(g)))
    IN  [u |-> AxisOf(e), h |-> SignOf(e) * h]

\* Quaternion.multiply: this * b
Mul(a, b) ==
    LET n == NormMul(a.norm, b.norm)
    IN  IF n = "zero" THEN ZeroQuat
        ELSE IF a.dir = "other" \/ b.dir = "other" THEN OtherQuat(n)
        ELSE LET r == IF b.h = 0 THEN [u |-> a.u, h |-> 0] ELSE Carry(a.g, b.u, b.h)
                 g == Prim(QMul(a.g, b.g))
             IN  IF a.h = 0 THEN Canon(Quat(n, r.u, r.h, g))
                 ELSE IF r.h = 0 THEN Canon(Quat(n, a.u, a.h, g))
                 ELSE IF r.u = a.u THEN Canon(Quat(n, a.u, a.h + r.h, g))
                 ELSE OtherQuat(n)

\* Quaternion.invert: the conjugate (three.js assumes unit length)
Inv(a) ==
    IF a.norm = "zero" \/ a.dir = "other" THEN a
    ELSE LET r == IF a.h = 0 THEN [u |-> "x", h |-> 0]
                  ELSE Carry(QInv(a.g), a.u, -a.h)
         IN  Canon(Quat(a.norm, r.u, r.h, QInv(a.g)))

\* "targetQuat.z = -targetQuat.z": the components of (cos h + sin h e_u) g
\* sit at the places of g and of e_u g
NegZ4(g) == << g[1], g[2], -g[3], g[4] >>
NegateZ(a) ==
    IF a.norm = "zero" \/ a.dir = "other" THEN a
    ELSE LET g2 == NegZ4(a.g)
             e2 == Prim(QMul(NegZ4(QMul(AxisUnit(a.u), a.g)), QInv(g2)))
         IN  IF a.h = 0 THEN Canon(Quat(a.norm, "x", 0, g2))
             ELSE Canon(Quat(a.norm, AxisOf(e2), SignOf(e2) * a.h, g2))

\* SMOOTHING_FACTOR = 0.3, as a fraction
SMOOTHING_NUM == 3
SMOOTHING_DEN == 10

\* mutation: the blend factor is 1, the target is taken as it is
Blend_snap(h) == h

\* the half-angle reached at the blend factor on the arc of half-angle h
Blend(h) ==
    IF h >= 0 THEN (SMOOTHING_NUM * h) \div SMOOTHING_DEN
    ELSE -((SMOOTHING_NUM * (-h)) \div SMOOTHING_DEN)

\* g is a turn about axis u alone (u-component and w), not plus or minus 1
AboutAxis(g, u) ==
    /\ g # QI /\ g # QNeg(QI)
    /\ \A v \in Axes \ {u} : g[AxisIndex(v)] = 0

\* the half-angle of such a turn, in (-18000, 18000]
TurnOf(g, u) ==
    LET c == g[AxisIndex(u)]
        w == g[4]
    IN  CASE w > 0 /\ c > 0 -> 4500
          [] w = 0 /\ c > 0 -> 9000
          [] w < 0 /\ c > 0 -> 13500
          [] w > 0 /\ c < 0 -> -4500
          [] w = 0 /\ c < 0 -> -9000
          [] OTHER -> -13500

\* prev.clone().slerp(target, SMOOTHING_FACTOR) of three.js: with
\* d = prev^-1 * target, the result is prev * d^t along the shorter arc;
\* target is negated when the dot product is negative; equal quaternions
\* give prev
Slerp(prev, target) ==
    IF prev.norm = "zero" /\ target.norm = "zero" THEN ZeroQuat
    ELSE IF prev.norm = "zero" THEN [target EXCEPT !.norm = "off"]
    ELSE IF target.norm = "zero" THEN [prev EXCEPT !.norm = "off"]
    ELSE IF prev.norm # "unit" \/ target.norm # "unit" THEN OtherQuat("off")
    ELSE IF prev.dir = "other" \/ target.dir = "other" THEN OtherQuat("unit")
    ELSE LET d == Mul(Inv(prev), target)
         IN  IF d.dir = "other" THEN OtherQuat("unit")
             ELSE IF d.g = QI \/ d.g = QNeg(QI)
                 THEN Mul(prev, Quat("unit", d.u, Blend(d.h), QI))
             ELSE IF \E u \in Axes : AboutAxis(d.g, u) /\ (d.h = 0 \/ u = d.u)
                 THEN LET u == CHOOSE v \in Axes : AboutAxis(d.g, v)
                          full == d.h + TurnOf(d.g, u)
                          arc == IF full > 9000 THEN full - 18000
                                 ELSE IF full < -9000 THEN full + 18000
                                 ELSE full
                      IN  Mul(prev, Canon(Quat("unit", u, Blend(arc), QI)))
             ELSE OtherQuat("unit")

(* ---------------------- target rig and mapping ------------------------ *)

\* a reduced Mixamo rig: pelvis, one leg chain, one arm chain
Bones == {"Hips", "LeftUpLeg", "LeftLeg", "LeftShoulder", "LeftArm", "LeftForeArm",
          "LeftHand"}
NoBone == "-"

Parent ==
    [b \in Bones |->
        CASE b = "Hips" -> NoBone
          [] b = "LeftUpLeg" -> "Hips"
          [] b = "LeftLeg" -> "LeftUpLeg"
          [] b = "LeftShoulder" -> "Hips"
          [] b = "LeftArm" -> "LeftShoulder"
          [] b = "LeftForeArm" -> "LeftArm"
          [] OTHER -> "LeftForeArm"]

\* the rest rotations and scale the rig asset is loaded with
RestRotation ==
    [b \in Bones |->
        CASE b = "Hips" -> Unit(QuarterTurn("x"))
          [] b = "LeftUpLeg" -> Unit(QZ)
          [] b = "LeftLeg" -> IdentityQuat
          [] b = "LeftShoulder" -> Unit(QY)
          [] b = "LeftArm" -> Unit(QZ)
          [] b = "LeftForeArm" -> Unit(QuarterTurn("y"))
          [] OTHER -> Unit(QX)]
RestScale == 100

\* the joints of UNIFIED_JOINT_NAMES that drive the bones of the reduced rig
Joints == {"hipCentre", "leftShoulder", "leftElbow", "leftWrist", "leftHip", "leftKnee"}

JOINT_TO_BONE_MAP ==
    [j \in Joints |->
        CASE j = "hipCentre" -> "Hips"
          [] j = "leftShoulder" -> "LeftArm"
          [] j = "leftElbow" -> "LeftForeArm"
          [] j = "leftWrist" -> "LeftHand"
          [] j = "leftHip" -> "LeftUpLeg"
          [] OTHER -> "LeftLeg"]

MappedBones == {JOINT_TO_BONE_MAP[j] : j \in Joints}
JointOf(b) == CHOOSE j \in Joints : JOINT_TO_BONE_MAP[j] = b

\* INTERMEDIATE_BONE_MAP, restricted to the reduced rig
IntermediateBones == {"LeftArm", "LeftForeArm", "LeftUpLeg"}
INTERMEDIATE_BONE_MAP ==
    [b \in IntermediateBones |-> IF b = "LeftUpLeg" THEN "Hips" ELSE "LeftShoulder"]

WORLD_QUAT_CONJUGATION_BONES == {"LeftLeg", "LeftHand"}

LEG_Z_NEGATE_BONES == {"LeftUpLeg", "LeftLeg"}

\* visibilityThreshold as Skeleton3DViewer passes it (0.5) and the default of
\* AvatarRenderer (0.8), in tenths
VisibilityThreshold == 5
DefaultVisibilityThreshold == 8

\* a Map without an entry for the key
NoQuat == [norm |-> "none", dir |-> "axis", u |-> "x", h |-> 0, g |-> QI]

Renderers == {1, 2}

\* the refs of an AvatarRenderer instance that has just been created
FreshRefs ==
    [mounted |-> FALSE,
     isInitialized |-> FALSE,
     initialRotations |-> [b \in Bones |-> NoQuat],
     initialScales |-> [b \in Bones |-> 0],
     intermediateInverse |-> [b \in Bones |-> NoQuat],
     intermediateRotation |-> [b \in Bones |-> NoQuat],
     prevQuaternions |-> [b \in Bones |-> NoQuat]]

\* the rig as loaded by useGLTF, nothing rendered yet
InitAvatar ==
    /\ scene = [b \in Bones |-> [quaternion |-> RestRotation[b], scale |-> RestScale]]
    /\ sceneParent = 0
    /\ tPoseRotations = [b \in Bones |-> NoQuat]
    /\ tPoseScales = [b \in Bones |-> 0]
    /\ tPoseCaptured = FALSE
    /\ rend = [r \in Renderers |-> FreshRefs]
    /\ fkLog = <<>>

(* ------------------------------ Init ----------------------------------- *)

InitOrch ==
    /\ sessions = [s \in StreamIds |-> ClosedSession]
    /\ workers = [w \in Workers |-> Idle]
    /\ nextFrame = 1
    /\ started = {}
    /\ superseded = {}
    /\ lastOp = Op("none", NoId, "none", "Closed")

InitApp ==
    /\ streams = <<>>
    /\ switchingModels = {}
    /\ initReqs = <<>>
    /\ switchReqs = <<>>
    /\ isCreating = FALSE
    /\ c2s = <<>>
    /\ s2c = <<>>

InitWS ==
    /\ poseResults = [s \in StreamIds |-> 0]
    /\ lastUpdateTime = [s \in StreamIds |-> 0]
    /\ shown = [s \in StreamIds |-> <<>>]
    /\ delivered = [id |-> NoId, ts |-> 0, at |-> 0]

InitSend ==
    /\ lastSentTimestamp = 0
    /\ emitted = <<>>
    /\ calls = <<>>

\* CameraCapture after mount, with its source playing and the interval set
InitCam ==
    /\ isProcessingFrameRef = FALSE
    /\ encoding = FALSE
    /\ waitingForResultRef = FALSE
    /\ waitingTimeoutRef = 0
    /\ timers = {}
    /\ intervalRef = TRUE
    /\ resultSeen = FALSE
    /\ received = {}

\* the mobile client after the PoseProvider is constructed
InitMob ==
    /\ mSocket = FALSE
    /\ mConnectionState = "disconnected"
    /\ mCurrentStreamId = NoId
    /\ mCamera = FALSE
    /\ mStartPending = FALSE
    /\ mIsStreaming = FALSE
    /\ mStreamId = NoId
    /\ mLandmarks = 0
    /\ mOut = <<>>
    /\ mIn = <<>>
    /\ mSession = FALSE
    /\ mLog = <<>>

Init == InitOrch /\ InitApp /\ InitWS /\ InitSend /\ InitCam /\ InitAvatar /\ InitMob /\ now = 100

(* --------------------- Spec: the Stream Orchestrator ------------------- *)

\* the frame pipeline is observed for two sessions
PipelineIds == {"a", "b"}

notOrch == <<appVars, wsVars, sendVars, camVars, avVars, mobVars, now>>

Next ==
    \/ \E id \in PipelineIds : createSession(id, "mediapipe") /\ UNCHANGED notOrch
    \/ \E id \in PipelineIds : startLoading(id) /\ UNCHANGED notOrch
    \/ \E id \in PipelineIds : loadDone(id) /\ UNCHANGED notOrch
    \/ \E id \in PipelineIds : loadFail(id) /\ UNCHANGED notOrch
    \/ \E id \in PipelineIds : submitFrame(id) /\ UNCHANGED notOrch
    \/ \E id \in PipelineIds : dispatch(id) /\ UNCHANGED notOrch
    \/ \E w \in Workers : complete(w) /\ UNCHANGED notOrch
    \/ \E w \in Workers : crash(w) /\ UNCHANGED notOrch
    \/ \E id \in PipelineIds : closeSession(id) /\ UNCHANGED notOrch

Spec == Init /\ [][Next]_vars

(* ------------- SpecCtl: session control with more ids than capacity ---- *)

NextCtl ==
    \/ \E id \in StreamIds, det \in AVAILABLE_MODELS :
          createSession(id, det) /\ UNCHANGED notOrch
    \/ \E id \in StreamIds : startLoading(id) /\ UNCHANGED notOrch
    \/ \E id \in StreamIds : loadDone(id) /\ UNCHANGED notOrch
    \/ \E id \in StreamIds : loadFail(id) /\ UNCHANGED notOrch
    \/ \E id \in StreamIds : closeSession(id) /\ UNCHANGED notOrch

SpecCtl == Init /\ [][NextCtl]_vars

(* ------------- SpecSwitch: detector hot-swap of one session ------------ *)

NextSwitch ==
    \/ \E det \in AVAILABLE_MODELS : createSession("a", det) /\ UNCHANGED notOrch
    \/ startLoading("a") /\ UNCHANGED notOrch
    \/ loadDone("a") /\ UNCHANGED notOrch
    \/ submitFrame("a") /\ UNCHANGED notOrch
    \/ dispatch("a") /\ UNCHANGED notOrch
    \/ \E w \in Workers : complete(w) /\ UNCHANGED notOrch
    \/ \E det \in AVAILABLE_MODELS : switchDetector("a", det) /\ UNCHANGED notOrch
    \/ switchDone("a") /\ UNCHANGED notOrch
    \/ switchFail("a") /\ UNCHANGED notOrch
    \/ closeSession("a") /\ UNCHANGED notOrch

SpecSwitch == Init /\ [][NextSwitch]_vars

(* ------------------- web client: StreamService -------------------------- *)

\* mutation: sendFrame without the timestamp check
OutOfOrder_never(timestamp) == FALSE

\* StreamService.sendFrame: "if (timestamp < this.lastSentTimestamp) return"
OutOfOrder(timestamp) == timestamp < lastSentTimestamp

\* StreamService.sendFrame(frameData, timestamp)
sendFrame(timestamp) ==
    /\ Len(calls) < MaxCalls
    /\ calls' = Append(calls, [m |-> "sendFrame", ts |-> timestamp])
    /\ IF OutOfOrder(timestamp)
       THEN UNCHANGED <<lastSentTimestamp, emitted>>
       ELSE /\ lastSentTimestamp' = timestamp
            /\ emitted' = Append(emitted, timestamp)

\* StreamService.flush(): emits flush_stream, lastSentTimestamp = Date.now()
flush ==
    /\ Len(calls) < MaxCalls
    /\ calls' = Append(calls, [m |-> "flush", ts |-> now])
    /\ lastSentTimestamp' = now
    /\ UNCHANGED emitted

\* capture timestamps a caller can hand to sendFrame: not in the future
SendStamps == {t \in {80 + 20 * k : k \in 0..(MaxTime + 1)} : t <= now}

notSend == <<orchVars, appVars, wsVars, camVars, avVars, mobVars>>

NextSend ==
    \/ \E t \in SendStamps : sendFrame(t) /\ UNCHANGED <<notSend, now>>
    \/ flush /\ UNCHANGED <<notSend, now>>
    \/ now < 100 + 20 * MaxTime /\ now' = now + 20 /\ UNCHANGED <<notSend, sendVars>>

SpecSend == Init /\ [][NextSend]_vars

(* ------------------- web client: useWebSocket --------------------------- *)

\* the last two timestamps displayed for a stream
Shown2(q, t) == IF q = <<>> THEN <<t>> ELSE <<q[Len(q)], t>>

\* mutation: a result older than the stale threshold is displayed all the same
IsStale_never(timestamp_ms) == FALSE

\* pose_result handler: "if (age > RESULT_TIMEOUT_MS) return"
IsStale(timestamp_ms) == now - timestamp_ms > RESULT_TIMEOUT_MS

\* mutation: the handler does not compare with the last accepted timestamp
IsNewer_always(stream_id, timestamp_ms) == TRUE

\* pose_result handler: "result.timestamp_ms >= lastTime", where lastTime is
\* lastUpdateTime.get(stream_id) || 0
IsNewer(stream_id, timestamp_ms) == timestamp_ms >= lastUpdateTime[stream_id]

\* socket.on('pose_result', ...)
onPoseResult(stream_id, timestamp_ms) ==
    /\ delivered' = [id |-> stream_id, ts |-> timestamp_ms, at |-> now]
    /\ IF ~IsStale(timestamp_ms) /\ IsNewer(stream_id, timestamp_ms)
       THEN /\ poseResults' = [poseResults EXCEPT ![stream_id] = timestamp_ms]
            /\ lastUpdateTime' = [lastUpdateTime EXCEPT ![stream_id] = timestamp_ms]
            /\ shown' = [shown EXCEPT ![stream_id] = Shown2(@, timestamp_ms)]
       ELSE UNCHANGED <<poseResults, lastUpdateTime, shown>>

\* clearPoseResult(streamId): both map entries are deleted
clearPoseResult(streamId) ==
    /\ poseResults' = [poseResults EXCEPT ![streamId] = 0]
    /\ lastUpdateTime' = [lastUpdateTime EXCEPT ![streamId] = 0]
    /\ UNCHANGED <<shown, delivered>>

\* flushStream(streamId): clearPoseResult, then flush_stream is emitted
flushStream(streamId) == clearPoseResult(streamId)

\* timestamps of the results the socket can deliver: frames captured so far
ResultStamps == {t \in {100 + 1000 * k : k \in 0..(2 * MaxTime)} : t <= now}

notWS == <<orchVars, appVars, sendVars, camVars, avVars, mobVars>>

NextWS ==
    \/ \E id \in PipelineIds, t \in ResultStamps :
          onPoseResult(id, t) /\ UNCHANGED <<notWS, now>>
    \/ \E id \in PipelineIds : clearPoseResult(id) /\ UNCHANGED <<notWS, now>>
    \/ \E id \in PipelineIds : flushStream(id) /\ UNCHANGED <<notWS, now>>
    \/ now < 100 + 2000 * MaxTime /\ now' = now + 2000 /\ UNCHANGED <<notWS, wsVars>>

SpecWS == Init /\ [][NextWS]_vars

(* ------- web client: App, Controls, StreamInitService (SpecApp) -------- *)

Msg(t, id, model) == [t |-> t, id |-> id, model |-> model]

\* the elements of q that satisfy / do not satisfy "is for stream id"
ForId(q, id) == SelectSeq(q, LAMBDA r : r.id = id)

\* mutation: a settled request keeps its handlers registered
NotForId_keep(q, id) == q

NotForId(q, id) == SelectSeq(q, LAMBDA r : r.id # id)

StreamIdsOf(list) == {list[i].streamId : i \in DOMAIN list}

\* App.addStream as called by a handleCreateStream that captured the stream
\* list "seen" when it was invoked: the duplicate check reads the captured
\* list, the append is a functional update of the current one
addStream(list, seen, streamId, modelType) ==
    IF streamId \in seen
    THEN list
    ELSE Append(list, [streamId |-> streamId, modelType |-> modelType])

\* the continuations of the initializeStream promises resolved by one
\* stream_initialized event, in registration order
RECURSIVE AddAll(_, _)
AddAll(list, reqs) ==
    IF reqs = <<>> THEN list
    ELSE AddAll(addStream(list, reqs[1].seen, reqs[1].id, reqs[1].model), Tail(reqs))

\* mutation: a create that ended in stream_error adds the stream all the same
OnInitError_add(list, reqs) == AddAll(list, reqs)

\* the continuations of the initializeStream promises resolved with success
\* false by one stream_error event: alert and return, nothing is added
OnInitError(list, reqs) == list

\* App.removeStream: setStreams(prev => prev.filter(s => s.streamId !== id))
removeStream(list, streamId) == SelectSeq(list, LAMBDA st : st.streamId # streamId)

\* handleSwitchModel on success: modelType of the stream becomes newModel
SetModel(list, streamId, newModel) ==
    [i \in DOMAIN list |->
        IF list[i].streamId = streamId
        THEN [list[i] EXCEPT !.modelType = newModel]
        ELSE list[i]]

RECURSIVE SetAll(_, _)
SetAll(list, reqs) ==
    IF reqs = <<>> THEN list
    ELSE SetAll(SetModel(list, reqs[1].id, reqs[1].model), Tail(reqs))

\* Controls.handleCreateStream up to the await: StreamInitService
\* .initializeStream registers its handlers and emits initialize_stream
handleCreateStream(streamId, modelType) ==
    /\ Len(initReqs) < MaxReqs
    /\ Len(c2s) < MaxChan
    /\ initReqs' = Append(initReqs, [id |-> streamId, model |-> modelType,
                                     seen |-> StreamIdsOf(streams)])
    /\ c2s' = Append(c2s, Msg("initialize_stream", streamId, modelType))
    /\ isCreating' = TRUE
    /\ UNCHANGED <<streams, switchingModels, switchReqs, s2c>>

\* the 60 s timer of initializeStream fires before an answer: reject; the
\* catch alerts and the finally re-enables the form
initTimeout(i) ==
    /\ i \in DOMAIN initReqs
    /\ initReqs' = [j \in 1..(Len(initReqs) - 1) |->
                       IF j < i THEN initReqs[j] ELSE initReqs[j + 1]]
    /\ isCreating' = FALSE
    /\ UNCHANGED <<streams, switchingModels, switchReqs, c2s, s2c>>

\* Controls.handleDeleteStream: cleanup_processor, then App.removeStream
handleDeleteStream(i) ==
    /\ i \in DOMAIN streams
    /\ Len(c2s) < MaxChan
    /\ c2s' = Append(c2s, Msg("cleanup_processor", streams[i].streamId, NoModel))
    /\ streams' = removeStream(streams, streams[i].streamId)
    /\ clearPoseResult(streams[i].streamId)
    /\ UNCHANGED <<switchingModels, initReqs, switchReqs, isCreating, s2c>>

\* App.handleSwitchModel up to the await; the select is disabled while the
\* stream has a switchingModels entry and fires only for another model
handleSwitchModel(i, newModel) ==
    /\ i \in DOMAIN streams
    /\ streams[i].streamId \notin switchingModels
    /\ streams[i].modelType # newModel
    /\ Len(switchReqs) < MaxReqs
    /\ Len(c2s) < MaxChan
    /\ switchingModels' = switchingModels \cup {streams[i].streamId}
    /\ switchReqs' = Append(switchReqs, [id |-> streams[i].streamId, model |-> newModel])
    /\ c2s' = Append(c2s, Msg("switch_model", streams[i].streamId, newModel))
    /\ UNCHANGED <<streams, initReqs, isCreating, s2c>>

\* the 60 s timer of switchModel fires before an answer: resolved as failure
switchTimeout(i) ==
    /\ i \in DOMAIN switchReqs
    /\ switchReqs' = [j \in 1..(Len(switchReqs) - 1) |->
                         IF j < i THEN switchReqs[j] ELSE switchReqs[j + 1]]
    /\ switchingModels' = switchingModels \ {switchReqs[i].id}
    /\ UNCHANGED <<streams, initReqs, isCreating, c2s, s2c>>

\* the socket delivers the next server event to the registered handlers
clientRecv ==
    /\ s2c # <<>>
    /\ s2c' = Tail(s2c)
    /\ LET m == Head(s2c)
           settled == IF ForId(switchReqs, m.id) # <<>>
                      THEN switchingModels \ {m.id} ELSE switchingModels
           created == IF ForId(initReqs, m.id) # <<>> THEN FALSE ELSE isCreating
       IN  CASE m.t = "stream_initialized" ->
                  /\ streams' = AddAll(streams, ForId(initReqs, m.id))
                  /\ initReqs' = NotForId(initReqs, m.id)
                  /\ isCreating' = created
                  /\ UNCHANGED <<switchReqs, switchingModels>>
             [] m.t = "stream_error" ->
                  /\ streams' = OnInitError(streams, ForId(initReqs, m.id))
                  /\ initReqs' = NotForId(initReqs, m.id)
                  /\ switchReqs' = NotForId(switchReqs, m.id)
                  /\ switchingModels' = settled
                  /\ isCreating' = created
             [] m.t = "model_switched" ->
                  /\ streams' = SetAll(streams, ForId(switchReqs, m.id))
                  /\ switchReqs' = NotForId(switchReqs, m.id)
                  /\ switchingModels' = settled
                  /\ UNCHANGED <<initReqs, isCreating>>
             [] OTHER ->
                  UNCHANGED <<streams, initReqs, switchReqs, switchingModels, isCreating>>
    /\ UNCHANGED c2s

\* the event the backend emits for the outcome of an operation, if any
EventOf(op) ==
    IF op.op = "createSession" /\ op.result # "accepted"
        THEN <<Msg("stream_error", op.id, NoModel)>>
    ELSE IF op.op = "progress" THEN <<Msg("stream_loading", op.id, NoModel)>>
    ELSE IF op.op = "warmup" /\ op.result = "ok"
        THEN <<Msg("stream_initialized", op.id, NoModel)>>
    ELSE IF op.op = "warmup" THEN <<Msg("stream_error", op.id, NoModel)>>
    ELSE IF op.op = "switchDetector" /\ op.result = "ok"
        THEN <<Msg("model_switched", op.id, sessions[op.id].warm)>>
    ELSE IF op.op = "switchDetector" THEN <<Msg("stream_error", op.id, NoModel)>>
    ELSE IF op.op = "processFrame" /\ op.result = "result"
        THEN <<Msg("pose_result", op.id, NoModel)>>
    ELSE <<>>

\* the backend handles the next client event
serverRecv ==
    /\ c2s # <<>>
    /\ Len(s2c) < MaxChan
    /\ c2s' = Tail(c2s)
    /\ LET m == Head(c2s)
       IN  CASE m.t = "initialize_stream" -> createSession(m.id, m.model)
             [] m.t = "switch_model" -> switchDetector(m.id, m.model)
             [] m.t = "process_frame" -> submitFrame(m.id)
             [] OTHER -> closeSession(m.id)
    /\ s2c' = s2c \o EventOf(lastOp')
    /\ UNCHANGED <<streams, switchingModels, initReqs, switchReqs, isCreating>>

\* a step the backend takes on its own, with the event it emits
serverStep(A) ==
    /\ Len(s2c) < MaxChan
    /\ A
    /\ s2c' = s2c \o EventOf(lastOp')
    /\ UNCHANGED <<streams, switchingModels, initReqs, switchReqs, isCreating, c2s>>

notApp == <<sendVars, camVars, avVars, mobVars, now>>
clientOnly == <<orchVars, wsVars, notApp>>

\* SpecApp follows one stream id through the client and the backend
AppIds == {"a"}

NextApp ==
    \/ \E id \in AppIds, m \in AVAILABLE_MODELS :
          handleCreateStream(id, m) /\ UNCHANGED clientOnly
    \/ \E i \in 1..MaxReqs : initTimeout(i) /\ UNCHANGED clientOnly
    \/ \E i \in 1..(2 * MaxReqs) : handleDeleteStream(i) /\ UNCHANGED <<orchVars, notApp>>
    \/ \E i \in 1..(2 * MaxReqs), m \in AVAILABLE_MODELS :
          handleSwitchModel(i, m) /\ UNCHANGED clientOnly
    \/ \E i \in 1..MaxReqs : switchTimeout(i) /\ UNCHANGED clientOnly
    \/ clientRecv /\ UNCHANGED clientOnly
    \/ serverRecv /\ UNCHANGED <<wsVars, notApp>>
    \/ \E id \in AppIds : serverStep(startLoading(id)) /\ UNCHANGED <<wsVars, notApp>>
    \/ \E id \in AppIds : serverStep(loadDone(id)) /\ UNCHANGED <<wsVars, notApp>>
    \/ \E id \in AppIds : serverStep(loadFail(id)) /\ UNCHANGED <<wsVars, notApp>>
    \/ \E id \in AppIds : serverStep(switchDone(id)) /\ UNCHANGED <<wsVars, notApp>>
    \/ \E id \in AppIds : serverStep(switchFail(id)) /\ UNCHANGED <<wsVars, notApp>>

SpecApp == Init /\ [][NextApp]_vars

(* ------ SpecLive: one stream from creation over frames to deletion ----- *)

\* the process_frame events still on their way to the backend
FramesInTransit == Len(SelectSeq(c2s, LAMBDA m : m.t = "process_frame"))

\* the capture loop of a listed stream hands a frame to StreamService
\* .sendFrame, which emits process_frame
emitFrame(id) ==
    /\ id \in StreamIdsOf(streams)
    /\ Len(c2s) < MaxChan
    /\ nextFrame + FramesInTransit <= MaxFrames
    /\ c2s' = Append(c2s, Msg("process_frame", id, NoModel))
    /\ UNCHANGED <<streams, switchingModels, initReqs, switchReqs, isCreating, s2c>>

\* the socket delivers a pose_result; the clock does not advance in this
\* specification, so the frame of every result was captured at time now
recvPoseResult ==
    /\ s2c # <<>>
    /\ Head(s2c).t = "pose_result"
    /\ s2c' = Tail(s2c)
    /\ onPoseResult(Head(s2c).id, now)
    /\ UNCHANGED <<streams, switchingModels, initReqs, switchReqs, isCreating, c2s>>

\* the socket delivers any other server event
recvControl == s2c # <<>> /\ Head(s2c).t # "pose_result" /\ clientRecv

NextLive ==
    \/ handleCreateStream("a", "mediapipe") /\ UNCHANGED clientOnly
    \/ recvControl /\ UNCHANGED clientOnly
    \/ emitFrame("a") /\ UNCHANGED clientOnly
    \/ recvPoseResult /\ UNCHANGED <<orchVars, notApp>>
    \/ \E i \in 1..(2 * MaxReqs) : handleDeleteStream(i) /\ UNCHANGED <<orchVars, notApp>>
    \/ serverRecv /\ UNCHANGED <<wsVars, notApp>>
    \/ serverStep(startLoading("a")) /\ UNCHANGED <<wsVars, notApp>>
    \/ serverStep(loadDone("a")) /\ UNCHANGED <<wsVars, notApp>>
    \/ serverStep(dispatch("a")) /\ UNCHANGED <<wsVars, notApp>>
    \/ \E w \in Workers : serverStep(complete(w)) /\ UNCHANGED <<wsVars, notApp>>

SpecLive == Init /\ [][NextLive]_vars

(* ------ SpecHang: a session whose detector call may never return ------- *)

\* the session whose detector may hang, and the other sessions
HungId == "a"
OtherIds == PipelineIds \ {HungId}

\* the detector call of a session other than HungId returns
completeOther ==
    \E w \in Workers : workers[w].sid \in OtherIds /\ complete(w) /\ UNCHANGED notOrch

dispatchOther == \E id \in OtherIds : dispatch(id) /\ UNCHANGED notOrch

NextHang ==
    \/ \E id \in PipelineIds : createSession(id, "mediapipe") /\ UNCHANGED notOrch
    \/ \E id \in PipelineIds : startLoading(id) /\ UNCHANGED notOrch
    \/ \E id \in PipelineIds : loadDone(id) /\ UNCHANGED notOrch
    \/ \E id \in PipelineIds : submitFrame(id) /\ UNCHANGED notOrch
    \/ dispatch(HungId) /\ UNCHANGED notOrch
    \/ dispatchOther
    \/ \E w \in Workers : workers[w].sid = HungId /\ complete(w) /\ UNCHANGED notOrch
    \/ completeOther

\* the pool keeps dispatching, and every detector call returns except those
\* of HungId, which may take forever
SpecHang ==
    Init /\ [][NextHang]_vars /\ WF_vars(dispatchOther) /\ WF_vars(completeOther)

(* ------------- SpecCam: CameraCapture's frame loop -------------------- *)

\* "Safety timeout: release if no result arrives within 2s"
SAFETY_TIMEOUT_MS == 2000

\* the stream of the CameraCapture component
CamId == "a"

\* mutation: processFrame only skips while a frame is being encoded
Blocked_encodingOnly == isProcessingFrameRef

\* processFrame: "if (isProcessingFrameRef.current || waitingForResultRef
\* .current) return"
Blocked == isProcessingFrameRef \/ waitingForResultRef

\* the interval calls processFrame, which draws the frame and starts encoding
processFrame ==
    /\ intervalRef
    /\ ~Blocked
    /\ Len(calls) < MaxCalls
    /\ isProcessingFrameRef' = TRUE
    /\ encoding' = TRUE
    /\ UNCHANGED <<waitingForResultRef, waitingTimeoutRef, timers, intervalRef,
                   resultSeen, received, sendVars>>

\* reader.onloadend: the encoded frame is sent, then the component waits for
\* the result under a safety timer
onloadend ==
    /\ encoding
    /\ sendFrame(now)
    /\ encoding' = FALSE
    /\ isProcessingFrameRef' = FALSE
    /\ waitingForResultRef' = TRUE
    /\ waitingTimeoutRef' = now + SAFETY_TIMEOUT_MS
    /\ timers' = timers \cup {now + SAFETY_TIMEOUT_MS}
    /\ resultSeen' = FALSE
    /\ UNCHANGED <<intervalRef, received>>

\* the callback of a safety timer that is due
safetyTimeout(t) ==
    /\ t \in timers
    /\ now >= t
    /\ timers' = timers \ {t}
    /\ waitingForResultRef' = FALSE
    /\ waitingTimeoutRef' = 0
    /\ UNCHANGED <<isProcessingFrameRef, encoding, intervalRef, resultSeen, received, sendVars>>

\* the pose_result of an emitted frame arrives (once, with the timestamp of
\* the frame); when the handler displays it, the
\* poseResult prop changes and the release effect runs
resultArrives(timestamp_ms) ==
    /\ onPoseResult(CamId, timestamp_ms)
    /\ resultSeen' = TRUE
    /\ received' = received \cup {timestamp_ms}
    /\ IF ~IsStale(timestamp_ms) /\ IsNewer(CamId, timestamp_ms)
       THEN /\ waitingForResultRef' = FALSE
            /\ timers' = timers \ {waitingTimeoutRef}
            /\ waitingTimeoutRef' = 0
       ELSE UNCHANGED <<waitingForResultRef, timers, waitingTimeoutRef>>
    /\ UNCHANGED <<isProcessingFrameRef, encoding, intervalRef, sendVars>>

\* the cleanup of the source effect, on unmount; an encoding under way
\* still calls back
cleanupEffect ==
    /\ intervalRef
    /\ intervalRef' = FALSE
    /\ timers' = timers \ {waitingTimeoutRef}
    /\ waitingTimeoutRef' = 0
    /\ isProcessingFrameRef' = FALSE
    /\ waitingForResultRef' = FALSE
    /\ UNCHANGED <<encoding, resultSeen, received, sendVars>>

\* the user deletes the stream: Controls.handleDeleteStream emits
\* cleanup_processor, App.removeStream drops the stream and its pose result,
\* and the unmount of CameraCapture runs the cleanup of the source effect
deleteCamStream ==
    /\ c2s' = Append(c2s, Msg("cleanup_processor", CamId, NoModel))
    /\ streams' = removeStream(streams, CamId)
    /\ clearPoseResult(CamId)
    /\ cleanupEffect
    /\ UNCHANGED <<switchingModels, initReqs, switchReqs, isCreating, s2c>>

MaxNow == 100 + 1000 * (MaxTime + 1)

NextCam ==
    \/ processFrame /\ UNCHANGED <<orchVars, appVars, wsVars, avVars, mobVars, now>>
    \/ onloadend /\ UNCHANGED <<orchVars, appVars, wsVars, avVars, mobVars, now>>
    \/ \E t \in timers : safetyTimeout(t) /\ UNCHANGED <<orchVars, appVars, wsVars, avVars, mobVars, now>>
    \/ \E t \in Range(emitted) \ received :
          resultArrives(t) /\ UNCHANGED <<orchVars, appVars, avVars, mobVars, now>>
    \/ cleanupEffect /\ UNCHANGED <<orchVars, appVars, wsVars, avVars, mobVars, now>>
    \/ deleteCamStream /\ UNCHANGED <<orchVars, avVars, mobVars, now>>
    \/ now < MaxNow /\ now' = now + 1000
          /\ UNCHANGED <<orchVars, appVars, wsVars, sendVars, camVars, avVars, mobVars>>

SpecCam == Init /\ [][NextCam]_vars

(* -------------------- web client: AvatarRenderer ----------------------- *)

\* fkData[jointName]: absent (or without a visibility), or a quaternion
\* with a visibility in tenths
Missing == [present |-> FALSE, visibility |-> 0, q |-> IdentityQuat]
JointData(vis, q) == [present |-> TRUE, visibility |-> vis, q |-> q]

\* an observed rotation: 60 degrees about the Z axis
PoseA == Canon(Quat("unit", "z", 3000, QI))

JointValues ==
    {Missing, JointData(9, IdentityQuat), JointData(9, PoseA), JointData(3, PoseA),
     JointData(9, ZeroQuat)}

\* the fkData prop: null, or joint data per joint
NoFk == [isNull |-> TRUE, joint |-> [j \in Joints |-> Missing]]
Fk(f) == [isNull |-> FALSE, joint |-> f]

LegJoints == {"leftHip", "leftKnee"}

FkFrames ==
    {NoFk} \cup {Fk([j \in Joints |-> v]) : v \in JointValues}
           \cup {Fk([j \in Joints |-> IF j \in LegJoints THEN JointData(9, PoseA) ELSE Missing])}

\* mutation: only an absent joint is gated
Gated_missingOnly(jointData, threshold) == ~jointData.present

\* "!jointData || jointData.visibility === undefined ||
\*  jointData.visibility < visibilityThreshold"
Gated(jointData, threshold) ==
    ~jointData.present \/ jointData.visibility < threshold

\* mutation: the module-level cache is never read
SavedRot_none(b) == NoQuat

\* _tPoseRotations.get(bone.name)
SavedRot(b) == tPoseRotations[b]

\* the rotation and scale the lazy initialisation takes as initial for a bone
CapturedRotation(b) ==
    IF tPoseCaptured /\ SavedRot(b) # NoQuat THEN SavedRot(b) ELSE scene[b].quaternion
CapturedScale(b) ==
    IF tPoseCaptured /\ tPoseScales[b] # 0 THEN tPoseScales[b] ELSE scene[b].scale

\* mutation: the chain is multiplied parent first
RECURSIVE ParentWorldQuat_parentFirst(_, _)
ParentWorldQuat_parentFirst(b, initialRotations) ==
    IF Parent[b] = NoBone THEN IdentityQuat
    ELSE Mul(initialRotations[Parent[b]],
             ParentWorldQuat_parentFirst(Parent[b], initialRotations))

\* the product, root first, of the initial rotations of the ancestors of b
RECURSIVE ParentWorldQuat(_, _)
ParentWorldQuat(b, initialRotations) ==
    IF Parent[b] = NoBone THEN IdentityQuat
    ELSE Mul(ParentWorldQuat(Parent[b], initialRotations), initialRotations[Parent[b]])

\* intermediateRotation as the initialisation precomputes it
IntermediateRotationOf(b, initialRotations) ==
    IF b \in WORLD_QUAT_CONJUGATION_BONES THEN ParentWorldQuat(b, initialRotations)
    ELSE IF b \in IntermediateBones THEN initialRotations[INTERMEDIATE_BONE_MAP[b]]
    ELSE NoQuat

InverseOrNone(q) == IF q = NoQuat THEN NoQuat ELSE Inv(q)

\* the refs after the lazy initialisation of useFrame
InitRefs(refs) ==
    LET initialRotations == [b \in Bones |-> CapturedRotation(b)]
    IN  [refs EXCEPT
            !.isInitialized = TRUE,
            !.initialRotations = initialRotations,
            !.initialScales = [b \in Bones |-> CapturedScale(b)],
            !.intermediateRotation =
                [b \in Bones |-> IntermediateRotationOf(b, initialRotations)],
            !.intermediateInverse =
                [b \in Bones |-> InverseOrNone(IntermediateRotationOf(b, initialRotations))]]

\* the shared scene after the initialisation: bones with a cached rest
\* rotation are set back to it
SceneAfterInit ==
    [b \in Bones |->
        [quaternion |-> IF tPoseCaptured /\ SavedRot(b) # NoQuat
                        THEN SavedRot(b) ELSE scene[b].quaternion,
         scale |-> IF tPoseCaptured /\ tPoseScales[b] # 0
                   THEN tPoseScales[b] ELSE scene[b].scale]]

\* mutation: the Z component is negated for every bone
TargetQuat_allBones(b, jointData) == NegateZ(jointData.q)

\* the quaternion read from the joint, with the Z negation of the leg bones
TargetQuat(b, jointData) ==
    IF b \in LEG_Z_NEGATE_BONES THEN NegateZ(jointData.q) ELSE jointData.q

\* mutation: the target is taken unblended on every frame
SmoothedQuat_unblended(prevQuat, targetQuat) == targetQuat

\* SLERP smoothing against the previous quaternion of the bone, if any
SmoothedQuat(prevQuat, targetQuat) ==
    IF prevQuat # NoQuat THEN Slerp(prevQuat, targetQuat) ELSE targetQuat

\* mutation: the conjugation without the inverse on the left
AppliedQuat_noInverse(refs, b, smoothedQuat) ==
    LET initialRotation == refs.initialRotations[b]
        intRot == refs.intermediateRotation[b]
    IN  IF intRot # NoQuat /\ initialRotation # NoQuat
        THEN Mul(Mul(smoothedQuat, intRot), initialRotation)
        ELSE IF initialRotation # NoQuat THEN Mul(initialRotation, smoothedQuat)
        ELSE smoothedQuat

\* the bone quaternion set from the smoothed rotation
AppliedQuat(refs, b, smoothedQuat) ==
    LET initialRotation == refs.initialRotations[b]
        intInv == refs.intermediateInverse[b]
        intRot == refs.intermediateRotation[b]
    IN  IF intInv # NoQuat /\ intRot # NoQuat /\ initialRotation # NoQuat
        THEN Mul(Mul(Mul(intInv, smoothedQuat), intRot), initialRotation)
        ELSE IF initialRotation # NoQuat THEN Mul(initialRotation, smoothedQuat)
        ELSE smoothedQuat

\* prevQuaternions after the joint loop
PrevAfter(refs, fk, b) ==
    IF b \in MappedBones /\ ~Gated(fk.joint[JointOf(b)], VisibilityThreshold)
    THEN SmoothedQuat(refs.prevQuaternions[b], TargetQuat(b, fk.joint[JointOf(b)]))
    ELSE refs.prevQuaternions[b]

\* a bone of the scene after the joint loop and the reset of unmapped bones
BoneAfter(refs, sc, fk, b) ==
    IF b \in MappedBones /\ ~Gated(fk.joint[JointOf(b)], VisibilityThreshold)
    THEN [quaternion |-> AppliedQuat(refs, b, PrevAfter(refs, fk, b)),
          scale |-> IF refs.initialScales[b] # 0 THEN refs.initialScales[b] ELSE RestScale]
    ELSE [quaternion |-> IF refs.initialRotations[b] # NoQuat
                         THEN refs.initialRotations[b] ELSE sc[b].quaternion,
          scale |-> IF refs.initialScales[b] # 0
                    THEN refs.initialScales[b] ELSE sc[b].scale]

\* the component is mounted: a new instance with new refs
mount(r) ==
    /\ ~rend[r].mounted
    /\ rend' = [rend EXCEPT ![r] = [FreshRefs EXCEPT !.mounted = TRUE]]
    /\ UNCHANGED <<scene, sceneParent, tPoseRotations, tPoseScales, tPoseCaptured, fkLog>>

\* Object3D.add: the object leaves the parent it has and joins the group
AddTo(parent, r) == r

\* Object3D.remove: only a child of the group is detached
RemoveFrom(parent, r) == IF parent = r THEN 0 ELSE parent

\* the cleanup of the mount effect; groupRef.current is set or already
\* detached when it runs, modelRef.current is set by the lazy initialisation
unmount(r) ==
    /\ rend[r].mounted
    /\ rend' = [rend EXCEPT ![r].mounted = FALSE, ![r].isInitialized = FALSE]
    /\ \E groupRef \in BOOLEAN :
          sceneParent' = IF groupRef /\ rend[r].isInitialized
                         THEN RemoveFrom(sceneParent, r) ELSE sceneParent
    /\ UNCHANGED <<scene, tPoseRotations, tPoseScales, tPoseCaptured, fkLog>>

\* useFrame callback of instance r with the fkData prop it has
useFrame(r, fkData) ==
    /\ rend[r].mounted
    /\ Len(fkLog) < MaxPoseFrames
    /\ fkLog' = Append(fkLog, [r |-> r, fk |-> fkData])
    /\ LET doInit == ~rend[r].isInitialized
           refs == IF doInit THEN InitRefs(rend[r]) ELSE rend[r]
           sc == IF doInit THEN SceneAfterInit ELSE scene
       IN  /\ IF doInit /\ ~tPoseCaptured
              THEN /\ tPoseRotations' = [b \in Bones |-> scene[b].quaternion]
                   /\ tPoseScales' = [b \in Bones |-> scene[b].scale]
              ELSE UNCHANGED <<tPoseRotations, tPoseScales>>
           /\ tPoseCaptured' = (tPoseCaptured \/ doInit)
           /\ sceneParent' = IF doInit THEN AddTo(sceneParent, r) ELSE sceneParent
           /\ IF fkData.isNull
              THEN /\ scene' = sc
                   /\ rend' = [rend EXCEPT ![r] = refs]
              ELSE /\ scene' = [b \in Bones |-> BoneAfter(refs, sc, fkData, b)]
                   /\ rend' = [rend EXCEPT ![r] =
                         [refs EXCEPT !.prevQuaternions =
                             [b \in Bones |-> PrevAfter(refs, fkData, b)]]]

notAvatar == <<orchVars, appVars, wsVars, sendVars, camVars, mobVars, now>>

\* SpecAvatar: one AvatarRenderer over its mounts, frames and unmounts
NextAvatar ==
    \/ mount(1) /\ UNCHANGED notAvatar
    \/ \E fk \in FkFrames : useFrame(1, fk) /\ UNCHANGED notAvatar
    \/ unmount(1) /\ UNCHANGED notAvatar

SpecAvatar == Init /\ [][NextAvatar]_vars

\* SpecRig: two AvatarRenderers, one per stream, on the one cached scene
RigFrames == {NoFk, Fk([j \in Joints |-> JointData(9, PoseA)])}

NextRig ==
    \/ \E r \in Renderers : mount(r) /\ UNCHANGED notAvatar
    \/ \E r \in Renderers, fk \in RigFrames : useFrame(r, fk) /\ UNCHANGED notAvatar
    \/ \E r \in Renderers : unmount(r) /\ UNCHANGED notAvatar

SpecRig == Init /\ [][NextRig]_vars

(* ------------------------ Spec: the mobile client ---------------------- *)

\* AppConfig.defaultStreamId
defaultStreamId == "mobile_stream_1"

\* number of entries of kind t in a log
CountOf(log, t) == Len(SelectSeq(log, LAMBDA e : e = t))

MobMsg(t, n) == [t |-> t, n |-> n]

\* SocketService.connect
mobConnect ==
    /\ ~mSocket
    /\ mSocket' = TRUE
    /\ mConnectionState' = "connecting"
    /\ UNCHANGED <<mCurrentStreamId, mCamera, mStartPending, mIsStreaming, mStreamId,
                   mLandmarks, mOut, mIn, mSession, mLog>>

\* onConnect of the socket, also after a reconnection
onConnect ==
    /\ mSocket
    /\ mConnectionState \in {"connecting", "disconnected"}
    /\ mConnectionState' = "connected"
    /\ UNCHANGED <<mSocket, mCurrentStreamId, mCamera, mStartPending, mIsStreaming,
                   mStreamId, mLandmarks, mOut, mIn, mSession, mLog>>

\* onDisconnect of the socket: the connection is lost with what was in flight
onDisconnect ==
    /\ mSocket
    /\ mConnectionState = "connected"
    /\ mConnectionState' = "disconnected"
    /\ mCurrentStreamId' = NoId
    /\ mIsStreaming' = FALSE
    /\ mOut' = <<>>
    /\ mIn' = <<>>
    /\ mSession' = FALSE
    /\ UNCHANGED <<mSocket, mCamera, mStartPending, mStreamId, mLandmarks, mLog>>

\* SocketService.cleanupStream: the events emitted
CleanupEvents(connected) ==
    IF connected THEN <<MobMsg("cleanup_processor", 0)>> ELSE <<>>

\* toggleStreaming while not streaming: PoseProvider.startStreaming up to
\* the await of startCamera
startStreaming ==
    /\ ~mIsStreaming
    /\ mConnectionState = "connected"
    /\ ~mStartPending
    /\ CountOf(mLog, "initialize_stream") < MaxStarts
    /\ mOut' = Append(mOut, MobMsg("initialize_stream", 0))
    /\ mLog' = Append(mLog, "initialize_stream")
    /\ mStartPending' = TRUE
    /\ UNCHANGED <<mSocket, mConnectionState, mCurrentStreamId, mCamera, mIsStreaming,
                   mStreamId, mLandmarks, mIn, mSession>>

\* startCamera has completed: the rest of startStreaming
startCameraDone(success) ==
    /\ mStartPending
    /\ mStartPending' = FALSE
    /\ mCamera' = (mCamera \/ success)
    /\ mIsStreaming' = (mIsStreaming \/ success)
    /\ UNCHANGED <<mSocket, mConnectionState, mCurrentStreamId, mStreamId, mLandmarks,
                   mOut, mIn, mSession, mLog>>

\* PoseProvider.stopStreaming
stopStreaming ==
    /\ mIsStreaming
    /\ mCamera' = FALSE
    /\ LET cleanup == mStreamId # NoId /\ mConnectionState = "connected"
       IN  /\ mOut' = mOut \o CleanupEvents(cleanup)
           /\ mCurrentStreamId' = IF cleanup THEN NoId ELSE mCurrentStreamId
    /\ mIsStreaming' = FALSE
    /\ mLandmarks' = 0
    /\ UNCHANGED <<mSocket, mConnectionState, mStartPending, mStreamId, mIn, mSession, mLog>>

\* PoseProvider.disconnect: stopStreaming, SocketService.disconnect, reset
mobDisconnect ==
    /\ mSocket
    /\ mCamera' = FALSE
    /\ mSocket' = FALSE
    /\ mConnectionState' = "disconnected"
    /\ mCurrentStreamId' = NoId
    /\ mIsStreaming' = FALSE
    /\ mLandmarks' = 0
    /\ mStreamId' = NoId
    /\ mOut' = <<>>
    /\ mIn' = <<>>
    /\ mSession' = FALSE
    /\ UNCHANGED <<mStartPending, mLog>>

\* onFrame of the camera: the frame is sent when streaming with a stream id
onFrame ==
    /\ mCamera
    /\ mIsStreaming /\ mStreamId # NoId
    /\ mConnectionState = "connected"
    /\ CountOf(mLog, "process_frame") < MaxCameraFrames
    /\ mOut' = Append(mOut, MobMsg("process_frame", 0))
    /\ mLog' = Append(mLog, "process_frame")
    /\ UNCHANGED <<mSocket, mConnectionState, mCurrentStreamId, mCamera, mStartPending,
                   mIsStreaming, mStreamId, mLandmarks, mIn, mSession>>

\* the handlers of the socket for the events of the backend
mobRecv ==
    /\ mSocket
    /\ mIn # <<>>
    /\ mIn' = Tail(mIn)
    /\ LET m == Head(mIn)
       IN  CASE m.t = "stream_initialized" ->
                  /\ mCurrentStreamId' = defaultStreamId
                  /\ mStreamId' = defaultStreamId
                  /\ mLog' = Append(mLog, "stream_initialized")
                  /\ UNCHANGED mLandmarks
             [] m.t = "pose_result" ->
                  /\ mLandmarks' = m.n
                  /\ UNCHANGED <<mCurrentStreamId, mStreamId, mLog>>
             [] OTHER ->
                  UNCHANGED <<mCurrentStreamId, mStreamId, mLandmarks, mLog>>
    /\ UNCHANGED <<mSocket, mConnectionState, mCamera, mStartPending, mIsStreaming,
                   mOut, mSession>>

\* the backend handles the next event of the client
mobServer ==
    /\ mOut # <<>>
    /\ mOut' = Tail(mOut)
    /\ LET m == Head(mOut)
       IN  CASE m.t = "initialize_stream" ->
                  \E ok \in BOOLEAN :
                      /\ mSession' = ok
                      /\ mIn' = Append(mIn, MobMsg(IF ok THEN "stream_initialized"
                                                   ELSE "stream_error", 0))
             [] m.t = "process_frame" ->
                  /\ UNCHANGED mSession
                  /\ IF mSession
                     THEN \E n \in {0, 33} : mIn' = Append(mIn, MobMsg("pose_result", n))
                     ELSE UNCHANGED mIn
             [] OTHER ->
                  /\ mSession' = FALSE
                  /\ UNCHANGED mIn
    /\ UNCHANGED <<mSocket, mConnectionState, mCurrentStreamId, mCamera, mStartPending,
                   mIsStreaming, mStreamId, mLandmarks, mLog>>

notMobile == <<orchVars, appVars, wsVars, sendVars, camVars, avVars, now>>

NextMobile ==
    \/ mobConnect /\ UNCHANGED notMobile
    \/ onConnect /\ UNCHANGED notMobile
    \/ onDisconnect /\ UNCHANGED notMobile
    \/ startStreaming /\ UNCHANGED notMobile
    \/ \E success \in BOOLEAN : startCameraDone(success) /\ UNCHANGED notMobile
    \/ stopStreaming /\ UNCHANGED notMobile
    \/ mobDisconnect /\ UNCHANGED notMobile
    \/ onFrame /\ UNCHANGED notMobile
    \/ mobRecv /\ UNCHANGED notMobile
    \/ mobServer /\ UNCHANGED notMobile

SpecMobile == Init /\ [][NextMobile]_vars

TypeOK ==
    /\ \A s \in StreamIds :
          sessions[s].state \in {"Created", "Loading", "Active", "Error", "Closed"}
    /\ nextFrame \in 1..(MaxFrames + 1)
    /\ Len(c2s) <= MaxChan /\ Len(s2c) <= MaxChan
    /\ Len(initReqs) <= MaxReqs /\ Len(switchReqs) <= MaxReqs
    /\ switchingModels \subseteq StreamIds

(* ------------------------------ claims --------------------------------- *)

\* C1: for every session, at every instant, at most one frame of the session
\* is being processed by the worker pool, and the session's inFlight flag
\* says whether there is one.
C1_SingleFlight ==
    \A s \in StreamIds :
        /\ Cardinality(JobsOf(s)) <= 1
        /\ sessions[s].inFlight <=> JobsOf(s) # {}

\* a frame waits behind the one in flight although a worker is free
C1_Witness ==
    \E s \in StreamIds :
        sessions[s].inFlight /\ sessions[s].pending # <<>> /\ IdleWorkers # {}

\* C2: a session holds at most one pending frame besides the one in flight,
\* a frame replaced in the pending slot is never processed, and submitting
\* to an Active session is never an error.
C2_LatestWins ==
    /\ \A s \in StreamIds : Len(sessions[s].pending) <= 1
    /\ superseded \cap started = {}
    /\ (lastOp.op = "submitFrame" /\ lastOp.prev = "Active")
          => lastOp.result \in {"started", "pending"}

\* frames A=1, B=2, C=3: B was replaced, A and C were processed
C2_Witness ==
    \E s \in StreamIds :
        superseded = {2} /\ started = {1, 3} /\ sessions[s].smooth = 3

\* C5: a step in which a detector crash moves session s from Active to Error
\* reports ProcessingFailed for s, leaves every other session and every
\* worker not processing s unchanged, and frees the worker that processed s.
C5_CrashIsolated ==
    [][\A s \in StreamIds :
        /\ (sessions[s].state = "Active" /\ sessions'[s].state = "Error") =>
              /\ lastOp' = Op("processFrame", s, "ProcessingFailed", "Active")
              /\ \A t \in StreamIds \ {s} : sessions'[t] = sessions[t]
              /\ \A w \in Workers :
                    IF w \in JobsOf(s) THEN workers'[w] = Idle
                    ELSE workers'[w] = workers[w]
        /\ (lastOp'.result = "ProcessingFailed" /\ lastOp'.id = s)
              => sessions'[s].state = "Error"
      ]_vars

\* session s crashed while another session has a frame in flight and one pending
C5_Witness ==
    \E s, t \in StreamIds :
        /\ s # t
        /\ lastOp = Op("processFrame", s, "ProcessingFailed", "Active")
        /\ sessions[s].state = "Error"
        /\ sessions[t].inFlight /\ sessions[t].pending # <<>>

\* C9: submitFrame to an unknown id fails with UnknownSession, to a session
\* in Created, Loading or Error it is dropped, in both cases without a state
\* change; processing only ever starts for an Active session; and a session
\* in Error stays in Error until it is closed.
C9_OnlyActive ==
    [][\A s \in StreamIds :
        /\ (nextFrame' # nextFrame /\ lastOp'.id = s) =>
              IF sessions[s].state = "Closed"
              THEN /\ lastOp'.result = "UnknownSession"
                   /\ UNCHANGED <<sessions, workers, started, superseded>>
              ELSE IF sessions[s].state \in {"Created", "Loading", "Error"}
              THEN /\ lastOp'.result = "dropped"
                   /\ UNCHANGED <<sessions, workers, started, superseded>>
              ELSE lastOp'.result \in {"started", "pending"}
        /\ sessions[s].state = "Error" => sessions'[s].state \in {"Error", "Closed"}
        /\ \A w \in Workers :
              (workers'[w] # workers[w] /\ workers'[w].sid = s /\ ~workers'[w].orphan)
                 => sessions[s].state = "Active"
      ]_vars

\* a frame was submitted to a session in Error and dropped
C9_Witness ==
    \E s \in StreamIds :
        lastOp = Op("submitFrame", s, "dropped", "Error") /\ sessions[s].state = "Error"

\* C10: closeSession of an id that is not live changes nothing and reports
\* no error; after closeSession the id is not live, whatever the state it was
\* in; and a createSession of the same id right after is accepted.
C10_CloseIdempotent ==
    [][\A s \in StreamIds :
        /\ (lastOp'.op = "closeSession" /\ lastOp'.id = s) =>
              /\ sessions'[s] = ClosedSession
              /\ sessions[s].state = "Closed" =>
                    /\ lastOp'.result = "noop"
                    /\ UNCHANGED <<sessions, workers, nextFrame, started, superseded>>
        /\ (lastOp.op = "closeSession" /\ lastOp.id = s
              /\ lastOp'.op = "createSession" /\ lastOp'.id = s) =>
              /\ lastOp'.result = "accepted"
              /\ sessions'[s].state = "Created"
      ]_vars

\* a session in Error has just been closed
C10_Witness ==
    \E s \in StreamIds :
        lastOp = Op("closeSession", s, "closed", "Error") /\ ~IsLive(s)

\* C7: the number of live sessions never exceeds MaxSessions, and a
\* createSession at capacity is rejected (SessionLimitExceeded unless the id is
\* a duplicate as well) and leaves the sessions and the pool as they were.
C7_SessionLimit ==
    [][/\ Cardinality(Live) <= MaxSessions
       /\ Cardinality(Live)' <= MaxSessions
       /\ (lastOp'.op = "createSession" /\ Cardinality(Live) >= MaxSessions) =>
             /\ lastOp'.result \in {"SessionLimitExceeded", "DuplicateSessionId"}
             /\ ~IsLive(lastOp'.id) => lastOp'.result = "SessionLimitExceeded"
             /\ UNCHANGED <<sessions, workers>>
      ]_vars

\* a createSession for a new id was rejected at capacity
C7_Witness ==
    \E s \in StreamIds :
        /\ lastOp = Op("createSession", s, "SessionLimitExceeded", "Closed")
        /\ Cardinality(Live) = MaxSessions

\* C6: a switchDetector step changes nothing of the session but its detector
\* handle: state, SmoothingState, pending frame and in-flight frame stay; the
\* handle changes only when the warm-up has succeeded, to the warmed-up
\* detector; and the detector of an Active session is always one that is up.
C6_SwitchKeepsSession ==
    [][\A id \in StreamIds :
        /\ ((lastOp'.op = "switchDetector" \/ lastOp'.result = "switching")
              /\ lastOp'.id = id) =>
              /\ sessions'[id].state = sessions[id].state
              /\ sessions'[id].smooth = sessions[id].smooth
              /\ sessions'[id].pending = sessions[id].pending
              /\ sessions'[id].inFlight = sessions[id].inFlight
              /\ workers' = workers
              /\ IF lastOp'.result = "ok"
                 THEN sessions'[id].det = sessions[id].warm /\ sessions'[id].detUp
                 ELSE /\ sessions'[id].det = sessions[id].det
                      /\ sessions'[id].detUp = sessions[id].detUp
        /\ sessions'[id].state = "Active" =>
              sessions'[id].detUp /\ sessions'[id].det \in AVAILABLE_MODELS
      ]_vars

\* a session with SmoothingState from a processed frame has switched detector
C6_Witness ==
    \E id \in StreamIds :
        /\ lastOp = Op("switchDetector", id, "ok", "Active")
        /\ sessions[id].smooth > 0
        /\ sessions[id].pending # <<>>

\* a failed switch of a session with SmoothingState
C6_WitnessFailed ==
    \E id \in StreamIds :
        /\ lastOp = Op("switchDetector", id, "DetectorInitFailed", "Active")
        /\ sessions[id].smooth > 0

Sorted(q) == \A i, j \in DOMAIN q : i < j => q[i] <= q[j]

\* C3: for every stream, the results set into poseResults come in
\* non-decreasing timestamp order, over any sequence of result arrivals,
\* flushes and clears.
C3_DisplayOrdered == \A id \in StreamIds : Sorted(shown[id])

\* C3, between clears: a displayed result is never older than the result
\* displayed before it unless the stream was cleared or flushed in between
C3_OrderedBetweenClears ==
    [][\A id \in StreamIds :
          (poseResults[id] # 0 /\ poseResults'[id] # 0)
             => poseResults'[id] >= poseResults[id]]_vars

\* C4: the process_frame events of a StreamService carry non-decreasing
\* timestamps, so a frame older than one already sent is never emitted, and
\* the calls sendFrame(100), sendFrame(80), sendFrame(120) emit 100 and 120.
C4_SendOrdered ==
    /\ Sorted(emitted)
    /\ \A i \in DOMAIN emitted : lastSentTimestamp >= emitted[i]
    /\ calls = <<[m |-> "sendFrame", ts |-> 100], [m |-> "sendFrame", ts |-> 80],
                 [m |-> "sendFrame", ts |-> 120]>>
          => emitted = <<100, 120>>

\* the frames 100, 80, 120 were handed to sendFrame in that order
C4_Witness ==
    /\ calls = <<[m |-> "sendFrame", ts |-> 100], [m |-> "sendFrame", ts |-> 80],
                 [m |-> "sendFrame", ts |-> 120]>>
    /\ emitted = <<100, 120>>

\* C8: at most one live stream exists per id in the client's stream list: a
\* creation with an id that is already live is rejected, never added next
\* to the existing one.
C8_UniqueIds ==
    \A i, j \in DOMAIN streams :
        i # j => streams[i].streamId # streams[j].streamId

\* the backend half of C8 as the specification states it: an
\* initialize_stream for an id whose session is live is answered with an
\* error and changes no session
C8_DuplicateRejected ==
    [][(/\ c2s # <<>>
        /\ c2s' = Tail(c2s)
        /\ Head(c2s).t = "initialize_stream"
        /\ sessions[Head(c2s).id].state # "Closed")
          => (/\ lastOp'.result \in {"DuplicateSessionId", "SessionLimitExceeded"}
              /\ sessions' = sessions
              /\ s2c' = Append(s2c, Msg("stream_error", Head(c2s).id, NoModel)))]_vars

\* a duplicate initialize_stream was refused while the session stayed live
C8_RejectedWitness ==
    /\ lastOp.op = "createSession"
    /\ lastOp.result = "DuplicateSessionId"
    /\ sessions[lastOp.id].state = "Active"

\* C11: after a stream has been closed no result of it is stored or
\* displayed: the client holds a pose result and a last accepted timestamp
\* only for streams in its list, and the backend holds SmoothingState and
\* frames only for live sessions.
C11_NothingAfterClose ==
    \A id \in StreamIds :
        /\ id \notin StreamIdsOf(streams) =>
              poseResults[id] = 0 /\ lastUpdateTime[id] = 0
        /\ ~IsLive(id) =>
              sessions[id].smooth = 0 /\ JobsOf(id) = {} /\ sessions[id].pending = <<>>

\* the backend half of C11 as the specification states it: closeSession of
\* a session with a frame in flight returns in the same step, the worker
\* keeps running, and the frame's completion changes no session and emits
\* no pose_result
C11_CloseDiscards ==
    [][/\ (lastOp'.op = "closeSession" /\ lastOp' # lastOp) =>
              /\ sessions'[lastOp'.id].state = "Closed"
              /\ \A w \in Workers : workers'[w].frame = workers[w].frame
       /\ \A w \in Workers :
             (workers[w].orphan /\ workers'[w] = Idle) =>
                 /\ sessions' = sessions
                 /\ s2c' = s2c
      ]_vars

\* a session was closed while its frame was in flight, the frame has
\* completed since, and its result was discarded
C11_DiscardWitness ==
    /\ lastOp.op = "processFrame" /\ lastOp.result = "discarded"
    /\ ~IsLive(lastOp.id)
    /\ started # {}

\* frame f of session id waits in the pending slot or is being processed
Waiting(id, f) ==
    \/ f \in Range(sessions[id].pending)
    \/ \E w \in JobsOf(id) : workers[w].frame = f

LifecycleSteps ==
    {<<"Closed", "Created">>, <<"Created", "Loading">>, <<"Loading", "Active">>,
     <<"Loading", "Error">>, <<"Active", "Error">>,
     <<"Created", "Closed">>, <<"Loading", "Closed">>, <<"Active", "Closed">>,
     <<"Error", "Closed">>}

\* the session has a createSession or switchDetector request whose final
\* outcome is still to come
Outstanding(s) == s.state \in {"Created", "Loading"} \/ s.warm # NoModel

\* C13: a session becomes Active only from Loading and Loading only from
\* Created; the backend emits a progress notification only for a request
\* whose final outcome is still to come, and the final outcome after it on
\* the same ordered channel; and the client, once it has taken the final
\* outcome of a request, has no handler of that request left to receive a
\* later progress notification, while a progress notification settles
\* nothing.
C13_ProgressBeforeFinal ==
    [][\A id \in StreamIds :
        /\ sessions'[id].state # sessions[id].state =>
              <<sessions[id].state, sessions'[id].state>> \in LifecycleSteps
        /\ (sessions[id].state = "Created" /\ sessions'[id].state = "Loading") =>
              s2c' = Append(s2c, Msg("stream_loading", id, NoModel))
        /\ (sessions[id].state = "Loading" /\ sessions'[id].state = "Active") =>
              s2c' = Append(s2c, Msg("stream_initialized", id, NoModel))
        /\ (sessions[id].state = "Loading" /\ sessions'[id].state = "Error") =>
              s2c' = Append(s2c, Msg("stream_error", id, NoModel))
        /\ (sessions[id].warm = NoModel /\ sessions'[id].warm # NoModel) =>
              s2c' = Append(s2c, Msg("stream_loading", id, NoModel))
        /\ (sessions[id].warm # NoModel /\ sessions'[id].warm = NoModel
               /\ sessions'[id].state = "Active") =>
              \E t \in {"model_switched", "stream_error"}, m \in AVAILABLE_MODELS \cup {NoModel} :
                  s2c' = Append(s2c, Msg(t, id, m))
        /\ (Len(s2c') > Len(s2c) /\ s2c'[Len(s2c')] = Msg("stream_loading", id, NoModel)) =>
              ~Outstanding(sessions[id]) \/ sessions[id].state = "Created"
        /\ (Len(s2c') > Len(s2c) /\ s2c'[Len(s2c')].id = id
               /\ s2c'[Len(s2c')].t \in {"stream_initialized", "model_switched"}) =>
              Outstanding(sessions[id]) /\ ~Outstanding(sessions'[id])
        /\ (s2c # <<>> /\ s2c' = Tail(s2c) /\ Head(s2c).id = id) =>
              CASE Head(s2c).t = "stream_loading" ->
                      UNCHANGED <<streams, initReqs, switchReqs, switchingModels>>
                [] Head(s2c).t = "stream_initialized" ->
                      ForId(initReqs', id) = <<>>
                [] Head(s2c).t = "model_switched" ->
                      ForId(switchReqs', id) = <<>> /\ id \notin switchingModels'
                [] Head(s2c).t = "stream_error" ->
                      /\ ForId(initReqs', id) = <<>>
                      /\ ForId(switchReqs', id) = <<>>
                [] OTHER -> TRUE
      ]_vars

\* the progress notification and the final success of a pending
\* initializeStream are on the socket, in that order
C13_Witness ==
    /\ s2c = <<Msg("stream_loading", "a", NoModel), Msg("stream_initialized", "a", NoModel)>>
    /\ ForId(initReqs, "a") # <<>>
    /\ sessions["a"].state = "Active"

\* a switchModel request has been settled by model_switched after its
\* progress notification
C13_WitnessSwitch ==
    /\ lastOp = Op("switchDetector", "a", "ok", "Active")
    /\ s2c = <<>>
    /\ switchReqs = <<>> /\ switchingModels = {}
    /\ \E i \in DOMAIN streams : streams[i].modelType = sessions["a"].det
    /\ \E i \in DOMAIN streams : streams[i].modelType = "rtmpose"

\* C14: a delivered result whose age, now minus its capture timestamp,
\* exceeds RESULT_TIMEOUT_MS changes neither the displayed pose nor the last
\* accepted timestamp of any stream; a result exactly RESULT_TIMEOUT_MS old
\* that is not older than the last accepted one is displayed.
C14_StaleDiscarded ==
    [][delivered' # delivered =>
          LET age == delivered'.at - delivered'.ts
              id == delivered'.id
          IN  /\ delivered'.at = now
              /\ age > RESULT_TIMEOUT_MS =>
                    poseResults' = poseResults /\ lastUpdateTime' = lastUpdateTime
              /\ (age <= RESULT_TIMEOUT_MS /\ delivered'.ts >= lastUpdateTime[id]) =>
                    /\ poseResults'[id] = delivered'.ts
                    /\ lastUpdateTime'[id] = delivered'.ts
      ]_vars

\* a result 4000 ms old was delivered for a stream that displays nothing
\* and was dropped
C14_Witness ==
    /\ delivered = [id |-> "a", ts |-> 100, at |-> 4100]
    /\ poseResults["a"] = 0
    /\ lastUpdateTime["a"] = 0

\* a result exactly 3000 ms old was delivered and is displayed
C14_WitnessBoundary ==
    /\ delivered = [id |-> "a", ts |-> 1100, at |-> 4100]
    /\ poseResults["a"] = 1100

C15_WitnessTimeout ==
    /\ Len(emitted) = 2
    /\ emitted[2] = emitted[1] + SAFETY_TIMEOUT_MS
    /\ poseResults[CamId] = 0
    /\ delivered.id = NoId

\* the fkData of the latest useFrame callback
LastFk == fkLog[Len(fkLog)].fk

\* C16: in every frame, a mapped bone whose driving joint is missing (the
\* frame carries no joint data at all, or none for that joint) or is below
\* the configured visibility threshold is at its rest-pose rotation.
C16_GatedBoneAtRest ==
    Len(fkLog) > 0 =>
        \A b \in MappedBones :
            (\/ LastFk.isNull
             \/ ~LastFk.joint[JointOf(b)].present
             \/ LastFk.joint[JointOf(b)].visibility < VisibilityThreshold)
                => scene[b].quaternion = RestRotation[b]

\* C16, frames that carry joint data: the gate of the joint loop puts the
\* bone of a missing or low-visibility joint at its rest rotation and scale.
C16_GateResets ==
    (Len(fkLog) > 0 /\ ~LastFk.isNull) =>
        \A b \in MappedBones :
            (~LastFk.joint[JointOf(b)].present
                \/ LastFk.joint[JointOf(b)].visibility < VisibilityThreshold)
                => /\ scene[b].quaternion = RestRotation[b]
                   /\ scene[b].scale = RestScale

\* the gate has acted on a posed bone: a frame posed the leg, the next has
\* the joint below the threshold
C16_GateWitness ==
    /\ Len(fkLog) > 1
    /\ ~fkLog[Len(fkLog) - 1].fk.isNull
    /\ fkLog[Len(fkLog) - 1].fk.joint["leftKnee"] = JointData(9, PoseA)
    /\ ~LastFk.isNull
    /\ LastFk.joint["leftKnee"] = JointData(3, PoseA)
    /\ scene["LeftLeg"].quaternion = RestRotation["LeftLeg"]

\* the joint of bone b is absent or below the configured threshold in fk
Dropped(fk, b) ==
    \/ ~fk.joint[JointOf(b)].present
    \/ fk.joint[JointOf(b)].visibility < VisibilityThreshold

\* C17: smoothing never blends across a visibility gap: when the joint of a
\* bone was below the threshold in one frame and is above it in the next,
\* the rotation emitted for the bone in the returning frame is the observed
\* one, unblended.
C17_NoBlendAcrossGap ==
    (/\ Len(fkLog) > 1
     /\ ~fkLog[Len(fkLog) - 1].fk.isNull
     /\ ~LastFk.isNull) =>
        \A b \in MappedBones :
            (/\ Dropped(fkLog[Len(fkLog) - 1].fk, b)
             /\ ~Dropped(LastFk, b))
                => rend[fkLog[Len(fkLog)].r].prevQuaternions[b]
                       = TargetQuat(b, LastFk.joint[JointOf(b)])

\* C17, the blend across the gap with unit input only: identity observed,
\* then the knee below the threshold, then PoseA observed; the rotation
\* emitted for the leg in the returning frame is 3/10 of the way from the
\* identity stored before the gap to the Z-negated PoseA.
C17_BlendedReturn ==
    /\ Len(fkLog) = 3
    /\ fkLog[1].fk = Fk([j \in Joints |-> JointData(9, IdentityQuat)])
    /\ fkLog[2].fk = Fk([j \in Joints |-> JointData(3, PoseA)])
    /\ fkLog[3].fk = Fk([j \in Joints |-> JointData(9, PoseA)])
    /\ rend[1].isInitialized
    /\ rend[1].prevQuaternions["LeftLeg"] = Quat("unit", "z", -900, QI)
    /\ rend[1].prevQuaternions["LeftHand"] = Quat("unit", "z", 900, QI)

\* the frame of the rest pose: every joint observed at the identity rotation
RestFrame == Fk([j \in Joints |-> JointData(9, IdentityQuat)])

\* C18: feeding the rest pose yields no net rotation: while every frame
\* rendered so far is the rest frame, every mapped bone (plain, conjugated by
\* an intermediate bone, conjugated by the parent world rotation, with and
\* without the Z negation) is at its rest rotation and scale, after any
\* number of frames.
C18_RestPoseRoundTrip ==
    (/\ Len(fkLog) > 0
     /\ \A i \in 1..Len(fkLog) : fkLog[i].fk = RestFrame) =>
        \A b \in MappedBones :
            /\ scene[b].quaternion = RestRotation[b]
            /\ scene[b].scale = RestScale

C18_Witness ==
    /\ Len(fkLog) = MaxPoseFrames
    /\ \A i \in 1..Len(fkLog) : fkLog[i].fk = RestFrame
    /\ rend[1].isInitialized
    /\ \A b \in MappedBones : rend[1].prevQuaternions[b] = IdentityQuat
    /\ \A b \in MappedBones : scene[b].quaternion = RestRotation[b]

\* C19: bone rest data is read-only after it is first loaded: the cached
\* rest rotations and scales, and the initial rotations, initial scales and
\* ancestor rotations every initialised renderer works with, are those
\* captured at the first initialisation (the rest values of the rig),
\* whatever was mounted, posed, unmounted and initialised again since.
C19_RestDataReadOnly ==
    /\ tPoseCaptured =>
          \A b \in Bones : /\ tPoseRotations[b] = RestRotation[b]
                           /\ tPoseScales[b] = RestScale
    /\ \A r \in Renderers : rend[r].isInitialized =>
          \A b \in Bones :
              /\ rend[r].initialRotations[b] = RestRotation[b]
              /\ rend[r].initialScales[b] = RestScale
              /\ rend[r].intermediateRotation[b] = IntermediateRotationOf(b, RestRotation)
              /\ rend[r].intermediateInverse[b]
                     = InverseOrNone(IntermediateRotationOf(b, RestRotation))

\* renderer 2 was initialised after renderer 1 had posed the shared scene
C19_Witness ==
    /\ Len(fkLog) > 1
    /\ fkLog[1].r = 1
    /\ ~fkLog[1].fk.isNull
    /\ fkLog[2].r = 2
    /\ rend[2].isInitialized
    /\ \A b \in Bones : rend[2].initialRotations[b] = RestRotation[b]
    /\ \E b \in MappedBones : scene[b].quaternion # RestRotation[b]

\* every quaternion of a frame that is observed is a unit quaternion
CleanFrame(fk) ==
    fk.isNull \/ \A j \in Joints : fk.joint[j].present => fk.joint[j].q.norm = "unit"

\* C20: every rotation emitted is unit-norm: for unit input the bone
\* quaternion is a unit quaternion, and a joint with a degenerate quaternion
\* is treated as absent (the bone at its rest rotation), so that no bone
\* ever holds a non-unit quaternion.
C20_UnitNormOutput ==
    /\ \A b \in Bones : scene[b].quaternion.norm = "unit"
    /\ \A r \in Renderers : \A b \in Bones :
          rend[r].prevQuaternions[b] # NoQuat
              => rend[r].prevQuaternions[b].norm = "unit"

\* C20, unit input only: while every observed quaternion so far is a unit
\* quaternion, every bone quaternion and every stored smoothed quaternion is
\* a unit quaternion.
C20_UnitInUnitOut ==
    (\A i \in 1..Len(fkLog) : CleanFrame(fkLog[i].fk)) =>
        /\ \A b \in Bones : scene[b].quaternion.norm = "unit"
        /\ \A b \in Bones :
              rend[1].prevQuaternions[b] # NoQuat
                  => rend[1].prevQuaternions[b].norm = "unit"

\* a blended, conjugated unit rotation has been emitted
C20_UnitWitness ==
    /\ Len(fkLog) > 1
    /\ \A i \in 1..Len(fkLog) : CleanFrame(fkLog[i].fk)
    /\ rend[1].prevQuaternions["LeftLeg"] = Quat("unit", "z", -900, QI)
    /\ scene["LeftLeg"].quaternion # RestRotation["LeftLeg"]
    /\ scene["LeftLeg"].quaternion.norm = "unit"

\* C21: CameraCapture has at most one unexpired frame outstanding: it emits
\* a frame only when every frame it emitted before has had its own result
\* received or was emitted at least SAFETY_TIMEOUT_MS before.
C21_OneOutstanding ==
    [][emitted' # emitted =>
          \A i \in 1..Len(emitted) :
              \/ emitted[i] \in received
              \/ now >= emitted[i] + SAFETY_TIMEOUT_MS
      ]_vars

\* the late result of frame 1 released the wait for frame 2: frame 3 went
\* out less than SAFETY_TIMEOUT_MS after frame 2, whose result has not come
C21_LateRelease ==
    /\ Len(emitted) = 3
    /\ emitted[3] < emitted[2] + SAFETY_TIMEOUT_MS
    /\ received = {emitted[1]}
    /\ emitted[2] >= emitted[1] + SAFETY_TIMEOUT_MS

\* the client has emitted cleanup_processor for the stream of CameraCapture
CleanupEmitted ==
    \E i \in DOMAIN c2s : c2s[i].t = "cleanup_processor" /\ c2s[i].id = CamId

\* C22: after the client has emitted cleanup_processor for a stream and the
\* capture component has been cleaned up, no further process_frame is
\* emitted for that stream, even when a frame was being encoded at deletion.
C22_NoFrameAfterCleanup ==
    [][CleanupEmitted => emitted' = emitted]_vars

\* the socket hands the client an event of type t that settles a pending
\* initializeStream
InitSettledBy(t) ==
    /\ s2c # <<>>
    /\ s2c' = Tail(s2c)
    /\ Head(s2c).t = t
    /\ ForId(initReqs, Head(s2c).id) # <<>>

\* a pending initializeStream is rejected by its 60 s timer
InitTimedOut == Len(initReqs') < Len(initReqs) /\ s2c' = s2c

\* C23: a stream is added to the stream list only by the receipt of
\* stream_initialized for its id, which settles a pending create of that
\* id; when a create ends in stream_error or in the 60 s timeout the stream
\* list is unchanged and the create form is enabled again.
C23_AddedOnlyWhenInitialized ==
    [][/\ Len(streams') > Len(streams)
            => /\ InitSettledBy("stream_initialized")
               /\ \A i \in (Len(streams) + 1)..Len(streams') :
                     streams'[i].streamId = Head(s2c).id
       /\ InitSettledBy("stream_error") => streams' = streams /\ ~isCreating'
       /\ InitTimedOut => streams' = streams /\ ~isCreating'
      ]_vars

\* a create ended in stream_error: the list is empty and the form enabled
C23_Witness ==
    /\ lastOp.op = "warmup"
    /\ lastOp.result # "ok"
    /\ s2c = <<>>
    /\ initReqs = <<>>
    /\ streams = <<>>
    /\ ~isCreating

\* a create ended in stream_initialized: the stream is listed
C23_WitnessAdded ==
    /\ lastOp.op = "warmup"
    /\ lastOp.result = "ok"
    /\ s2c = <<>>
    /\ initReqs = <<>>
    /\ Len(streams) = 1
    /\ ~isCreating

\* C24: whenever the client has no switch in progress for a listed stream,
\* the modelType of the stream is the model of the most recent
\* model_switched the backend emitted for it, or the model it was created
\* with: the detector the backend session runs (the backend sets it at
\* creation and in the step that emits model_switched).
C24_ModelInSync ==
    \A i \in DOMAIN streams :
        (/\ streams[i].streamId \notin switchingModels
         /\ sessions[streams[i].streamId].state = "Active")
            => streams[i].modelType = sessions[streams[i].streamId].det

\* C24, second half: a model_switched the client receives for a listed
\* stream finds a pending switchModel that notices it.
C24_SwitchNoticed ==
    [][(/\ s2c # <<>>
        /\ s2c' = Tail(s2c)
        /\ Head(s2c).t = "model_switched"
        /\ Head(s2c).id \in StreamIdsOf(streams))
          => ForId(switchReqs, Head(s2c).id) # <<>>
      ]_vars

\* the switch timed out in the client and was then completed by the
\* backend: one listed stream, created once, nothing pending or in flight,
\* and the client shows another model than the backend runs
C24_MissedSwitch ==
    /\ Len(streams) = 1
    /\ initReqs = <<>> /\ switchReqs = <<>> /\ switchingModels = {}
    /\ c2s = <<>> /\ s2c = <<>>
    /\ sessions["a"].state = "Active"
    /\ sessions["a"].warm = NoModel
    /\ lastOp = Op("switchDetector", "a", "ok", "Active")
    /\ streams[1].modelType # sessions["a"].det

\* the rest rotation a mapped bone is conjugated against: the rest rotation
\* of the hips for the thigh, of the shoulder for the upper arm and the
\* forearm, and for the shin and the hand the product of the rest rotations
\* of the ancestors, root first
RestConjugator(b) ==
    CASE b = "LeftUpLeg" -> RestRotation["Hips"]
      [] b = "LeftArm" -> RestRotation["LeftShoulder"]
      [] b = "LeftForeArm" -> RestRotation["LeftShoulder"]
      [] b = "LeftLeg" -> Mul(RestRotation["Hips"], RestRotation["LeftUpLeg"])
      [] b = "LeftHand" ->
            Mul(Mul(Mul(RestRotation["Hips"], RestRotation["LeftShoulder"]),
                    RestRotation["LeftArm"]),
                RestRotation["LeftForeArm"])
      [] OTHER -> NoQuat

\* q conjugated into the frame of bone b
IntoTargetFrame(b, q) ==
    IF RestConjugator(b) = NoQuat THEN q
    ELSE Mul(Mul(Inv(RestConjugator(b)), q), RestConjugator(b))

\* the bone quaternion for the rotation c in the frame of the bone
OnRest(b, c) ==
    IF RestConjugator(b) = NoQuat THEN Mul(RestRotation[b], c)
    ELSE Mul(c, RestRotation[b])

\* every frame rendered so far observes the rotation q at every joint
SteadyPose(q) ==
    /\ Len(fkLog) > 0
    /\ \A i \in 1..Len(fkLog) : fkLog[i].fk = Fk([j \in Joints |-> JointData(9, q)])

\* C25 as stated: the Z component of the quaternion that results from the
\* conjugation into the target frame is negated, for exactly the bones of
\* LEG_Z_NEGATE_BONES.
C25_NegatesConjugated ==
    SteadyPose(PoseA) =>
        \A b \in MappedBones :
            scene[b].quaternion =
                OnRest(b, IF b \in LEG_Z_NEGATE_BONES
                          THEN NegateZ(IntoTargetFrame(b, PoseA))
                          ELSE IntoTargetFrame(b, PoseA))

\* C25 as amended: the Z component of the observed quaternion is negated,
\* before the conjugation into the target frame, for exactly the bones of
\* LEG_Z_NEGATE_BONES and for no other bone, whatever the frame holds.
C25_NegatesObserved ==
    \A q \in {IdentityQuat, PoseA} :
        SteadyPose(q) =>
            \A b \in MappedBones :
                scene[b].quaternion =
                    OnRest(b, IntoTargetFrame(b, IF b \in LEG_Z_NEGATE_BONES
                                                 THEN NegateZ(q) ELSE q))

\* the thigh shows the observed rotation negated before the conjugation,
\* which is not the negation after it; the hand shows it as observed
C25_Witness ==
    /\ SteadyPose(PoseA)
    /\ Len(fkLog) > 1
    /\ scene["LeftUpLeg"].quaternion.dir = "axis"
    /\ scene["LeftUpLeg"].quaternion
           = OnRest("LeftUpLeg", IntoTargetFrame("LeftUpLeg", NegateZ(PoseA)))
    /\ scene["LeftUpLeg"].quaternion
           # OnRest("LeftUpLeg", NegateZ(IntoTargetFrame("LeftUpLeg", PoseA)))
    /\ scene["LeftHand"].quaternion = OnRest("LeftHand", IntoTargetFrame("LeftHand", PoseA))
    /\ scene["LeftHand"].quaternion # RestRotation["LeftHand"]

\* the ancestors of a bone, root first
RECURSIVE AncestorsOf(_)
AncestorsOf(b) ==
    IF Parent[b] = NoBone THEN <<>> ELSE Append(AncestorsOf(Parent[b]), Parent[b])

\* the product of the rest rotations of a chain of bones, in its order
RECURSIVE RestProduct(_)
RestProduct(chain) ==
    IF chain = <<>> THEN IdentityQuat
    ELSE Mul(RestRotation[Head(chain)], RestProduct(Tail(chain)))

\* C26 as stated: the thigh is conjugated against the rest rotation of the
\* hips only, and every deeper mapped chain bone (shin, forearm, hand)
\* against the product, root to parent, of the rest rotations of all of its
\* ancestors.
C26_FullChainBelowThigh ==
    \A r \in Renderers : rend[r].isInitialized =>
        /\ rend[r].intermediateRotation["LeftUpLeg"] = RestRotation["Hips"]
        /\ \A b \in {"LeftLeg", "LeftForeArm", "LeftHand"} :
              /\ rend[r].intermediateRotation[b] = RestProduct(AncestorsOf(b))
              /\ rend[r].intermediateInverse[b] = Inv(RestProduct(AncestorsOf(b)))

\* C26 as amended: the thigh is conjugated against the rest rotation of the
\* hips only, the upper arm and the forearm against the rest rotation of
\* the shoulder only, and the shin and the hand against the product, root
\* to parent, of the rest rotations of all of their ancestors.
C26_Conjugators ==
    \A r \in Renderers : rend[r].isInitialized =>
        /\ rend[r].intermediateRotation["LeftUpLeg"] = RestRotation["Hips"]
        /\ \A b \in {"LeftArm", "LeftForeArm"} :
              rend[r].intermediateRotation[b] = RestRotation["LeftShoulder"]
        /\ \A b \in {"LeftLeg", "LeftHand"} :
              rend[r].intermediateRotation[b] = RestProduct(AncestorsOf(b))
        /\ \A b \in {"LeftUpLeg", "LeftArm", "LeftForeArm", "LeftLeg", "LeftHand"} :
              rend[r].intermediateInverse[b] = Inv(rend[r].intermediateRotation[b])
        /\ rend[r].intermediateRotation["Hips"] = NoQuat

\* a renderer is initialised and a pose is shown through the conjugators;
\* the chain of the hand does not commute and is not the shoulder alone
C26_Witness ==
    /\ rend[1].isInitialized
    /\ SteadyPose(PoseA)
    /\ rend[1].intermediateRotation["LeftHand"] = RestProduct(AncestorsOf("LeftHand"))
    /\ rend[1].intermediateRotation["LeftHand"].dir = "axis"
    /\ RestProduct(AncestorsOf("LeftHand")) # RestRotation["LeftShoulder"]
    /\ RestProduct(AncestorsOf("LeftForeArm")) # RestRotation["LeftShoulder"]
    /\ scene["LeftHand"].quaternion = OnRest("LeftHand", IntoTargetFrame("LeftHand", PoseA))

\* the observed rotation of bone b in frame fk as the smoothing receives it
NewValue(fk, b) ==
    IF b \in LEG_Z_NEGATE_BONES
    THEN NegateZ(fk.joint[JointOf(b)].q)
    ELSE fk.joint[JointOf(b)].q

\* C27: on every frame in which a bone passes the gate, the rotation emitted
\* is the spherical interpolation from the stored previous quaternion of the
\* bone toward the new value at factor 0.3, or the new value unblended when
\* none is stored (the bone's first valid frame); it is stored as the
\* previous quaternion and the bone shows it in its own frame.
C27_SlerpSmoothing ==
    [][(fkLog' # fkLog /\ ~fkLog'[Len(fkLog')].fk.isNull) =>
          \A b \in MappedBones :
              ~Dropped(fkLog'[Len(fkLog')].fk, b) =>
                  /\ rend'[1].prevQuaternions[b] =
                        IF rend[1].prevQuaternions[b] = NoQuat
                        THEN NewValue(fkLog'[Len(fkLog')].fk, b)
                        ELSE Slerp(rend[1].prevQuaternions[b],
                                   NewValue(fkLog'[Len(fkLog')].fk, b))
                  /\ scene'[b].quaternion =
                        OnRest(b, IntoTargetFrame(b, rend'[1].prevQuaternions[b]))
      ]_vars

\* identity, then a rotation of 60 degrees about Z, twice: the hand is at 18
\* degrees after the first of them and at 30.6 degrees after the second
C27_Witness ==
    /\ Len(fkLog) = 3
    /\ fkLog[1].fk = RestFrame
    /\ fkLog[2].fk = Fk([j \in Joints |-> JointData(9, PoseA)])
    /\ fkLog[3].fk = fkLog[2].fk
    /\ rend[1].prevQuaternions["LeftHand"] = Quat("unit", "z", 1530, QI)
    /\ rend[1].prevQuaternions["LeftLeg"] = Quat("unit", "z", -1530, QI)
    /\ scene["LeftHand"].quaternion.dir = "axis"

\* instance r applies a pose frame in this step
AppliesFrame(r) ==
    /\ fkLog' # fkLog
    /\ fkLog'[Len(fkLog')].r = r
    /\ ~fkLog'[Len(fkLog')].fk.isNull

\* C28: avatar rendering is isolated per stream: while the avatar is shown in
\* the group of one stream's renderer, a pose frame applied by the renderer of
\* another stream changes neither its bone rotations nor its attachment.
C28_IsolatedPerStream ==
    [][\A r \in Renderers, o \in Renderers :
          (o # r /\ AppliesFrame(r) /\ rend[o].mounted /\ sceneParent = o)
              => /\ sceneParent' = o
                 /\ \A b \in Bones : scene'[b].quaternion = scene[b].quaternion
      ]_vars

\* C29: the mobile client emits process_frame only after it has received
\* stream_initialized since its most recent initialize_stream request, also
\* when streaming is stopped and started again.
C29_FramesAfterInitialized ==
    \A i \in DOMAIN mLog :
        mLog[i] = "process_frame" =>
            \E k \in 1..(i - 1) :
                /\ mLog[k] = "stream_initialized"
                /\ \A j \in (k + 1)..(i - 1) : mLog[j] # "initialize_stream"

\* C30: while the mobile client is not streaming its landmark lists are
\* empty; a pose_result that arrives after stopStreaming or after a
\* disconnect does not fill them again.
C30_EmptyWhenNotStreaming ==
    ~mIsStreaming => mLandmarks = 0

====
